---- MODULE Spec2Model ----
(***************************************************************************)
(* A model of the WhatsApp format synchronizer (src/src/sync_formats.js):  *)
(* the two parsers, the sender normalisation, the two fingerprints, the    *)
(* merge, the writers and the sync run over a chat directory.              *)
(*                                                                         *)
(* A JavaScript string is modelled as a sequence of one-character strings, *)
(* so that trim, split, replace, the regular expressions and the 32-bit    *)
(* hash are computed character by character, as the code computes them.    *)
(***************************************************************************)
EXTENDS Integers, Sequences, FiniteSets

(***************************************************************************)
(* Characters                                                              *)
(***************************************************************************)
UpperChars == <<"A","B","C","D","E","F","G","H","I","J","K","L","M",
                "N","O","P","Q","R","S","T","U","V","W","X","Y","Z">>
LowerChars == <<"a","b","c","d","e","f","g","h","i","j","k","l","m",
                "n","o","p","q","r","s","t","u","v","w","x","y","z">>
DigitChars == <<"0","1","2","3","4","5","6","7","8","9">>

PosIn(seq, c) == CHOOSE i \in 1..Len(seq) : seq[i] = c
IsIn(seq, c) == \E i \in 1..Len(seq) : seq[i] = c

IsUpper(c) == IsIn(UpperChars, c)
IsLower(c) == IsIn(LowerChars, c)
IsDigit(c) == IsIn(DigitChars, c)
\* \s of a JavaScript regular expression, and what String.prototype.trim strips
IsSpace(c) == c \in {" ", "\n", "\t", "\r"}
\* \w of a JavaScript regular expression
IsWordChar(c) == IsUpper(c) \/ IsLower(c) \/ IsDigit(c) \/ c = "_"

\* String.prototype.charCodeAt for the characters of the model's alphabet
CharCode(c) ==
  IF IsUpper(c) THEN 64 + PosIn(UpperChars, c)
  ELSE IF IsLower(c) THEN 96 + PosIn(LowerChars, c)
  ELSE IF IsDigit(c) THEN 47 + PosIn(DigitChars, c)
  ELSE CASE c = "\t" -> 9  [] c = "\n" -> 10 [] c = "\r" -> 13 [] c = " " -> 32
         [] c = "("  -> 40 [] c = ")"  -> 41 [] c = "+"  -> 43 [] c = "," -> 44
         [] c = "-"  -> 45 [] c = "."  -> 46 [] c = "/"  -> 47 [] c = ":" -> 58
         [] c = "<"  -> 60 [] c = ">"  -> 62 [] c = "@"  -> 64 [] c = "[" -> 91
         [] c = "]"  -> 93 [] c = "_"  -> 95 [] c = "~"  -> 126

ToLowerChar(c) == IF IsUpper(c) THEN LowerChars[PosIn(UpperChars, c)] ELSE c

(***************************************************************************)
(* Strings                                                                 *)
(***************************************************************************)
ToLowerCase(s) == [i \in 1..Len(s) |-> ToLowerChar(s[i])]

\* s.substring(from - 1, to) in 1-based, inclusive positions
Slice(s, from, to) == IF from > to THEN << >> ELSE SubSeq(s, from, to)

\* s.substring(0, n)
Substring0(s, n) == Slice(s, 1, IF n < Len(s) THEN n ELSE Len(s))

\* String.prototype.trim
Trim(s) ==
  IF \A i \in 1..Len(s) : IsSpace(s[i]) THEN << >>
  ELSE LET first == CHOOSE i \in 1..Len(s) :
                      ~IsSpace(s[i]) /\ \A j \in 1..(i-1) : IsSpace(s[j])
           last  == CHOOSE i \in 1..Len(s) :
                      ~IsSpace(s[i]) /\ \A j \in (i+1)..Len(s) : IsSpace(s[j])
       IN  SubSeq(s, first, last)

\* sub occurs in s at position i
MatchAt(s, sub, i) ==
  /\ i >= 1
  /\ i + Len(sub) - 1 <= Len(s)
  /\ \A k \in 1..Len(sub) : s[i + k - 1] = sub[k]

\* String.prototype.includes
Includes(s, sub) == \E i \in 1..(Len(s) + 1) : MatchAt(s, sub, i)

\* String.prototype.startsWith
StartsWith(s, sub) == MatchAt(s, sub, 1)

\* String.prototype.indexOf, 1-based; 0 when sub does not occur
IndexOf(s, sub) ==
  IF Includes(s, sub)
  THEN CHOOSE i \in 1..(Len(s) + 1) :
         MatchAt(s, sub, i) /\ \A j \in 1..(i-1) : ~MatchAt(s, sub, j)
  ELSE 0

\* s.replace(sub, ""): the first occurrence only
RemoveFirst(s, sub) ==
  LET i == IndexOf(s, sub)
  IN  IF i = 0 THEN s
      ELSE Slice(s, 1, i - 1) \o Slice(s, i + Len(sub), Len(s))

\* s.split(/\s+/): the separators are the maximal runs of white space; an
\* empty piece appears only before a leading or after a trailing separator
RECURSIVE SplitFrom(_, _, _)
SplitFrom(s, i, cur) ==
  IF i > Len(s) THEN <<cur>>
  ELSE IF IsSpace(s[i])
       THEN IF i > 1 /\ IsSpace(s[i-1])
            THEN SplitFrom(s, i + 1, cur)
            ELSE <<cur>> \o SplitFrom(s, i + 1, << >>)
       ELSE SplitFrom(s, i + 1, Append(cur, s[i]))
SplitSpaces(s) == SplitFrom(s, 1, << >>)

\* Array.prototype.join
RECURSIVE Join(_, _)
Join(parts, sep) ==
  IF parts = << >> THEN << >>
  ELSE IF Len(parts) = 1 THEN parts[1]
       ELSE parts[1] \o sep \o Join(Tail(parts), sep)

Range(s) == {s[i] : i \in 1..Len(s)}

(***************************************************************************)
(* Numbers.  A JavaScript number that may be NaN is a sequence: <<n>> is   *)
(* the number n and << >> is NaN.  Times are counted from 2025-01-01       *)
(* 00:00:00, a multiple of five minutes, so that the five-minute windows   *)
(* of the code are the windows of the model.                               *)
(***************************************************************************)
NaN == << >>
Num(n) == <<n>>
IsNaN(x) == x = << >>
Val(x) == x[1]

\* Math.floor(x / m) * m
FloorTo(x, m) == IF IsNaN(x) THEN NaN ELSE Num((Val(x) \div m) * m)

(***************************************************************************)
(* Sender normalisation: src/src/sync_formats.js                           *)
(***************************************************************************)
You  == <<"Y","o","u">>
SELF == <<"S","E","L","F">>

\* /^\+?\d+[\s\d\-\(\)]*$/
IsPhoneTail(c) == IsSpace(c) \/ IsDigit(c) \/ c \in {"-", "(", ")"}
phonePatterns(s) ==
  LET rest == IF s # << >> /\ s[1] = "+" THEN Tail(s) ELSE s
  IN  /\ rest # << >>
      /\ IsDigit(rest[1])
      /\ \A i \in 1..Len(rest) : IsPhoneTail(rest[i])

\* sender.replace(/[\s\-\(\)]/g, "")
IsPhonePunct(c) == IsSpace(c) \/ c \in {"-", "(", ")"}
normalizedPhone(s) == SelectSeq(s, LAMBDA c : ~IsPhonePunct(c))

\* the last position of the run of word characters that starts at i
RunEnd(s, i) ==
  CHOOSE j \in i..Len(s) :
    /\ \A k \in i..j : IsWordChar(s[k])
    /\ (j = Len(s) \/ ~IsWordChar(s[j + 1]))

\* name.replace(/[@.]\w+/g, "")
RECURSIVE RemoveEmailLike(_, _)
RemoveEmailLike(s, i) ==
  IF i > Len(s) THEN << >>
  ELSE IF s[i] \in {"@", "."} /\ i < Len(s) /\ IsWordChar(s[i + 1])
       THEN RemoveEmailLike(s, RunEnd(s, i + 1) + 1)
       ELSE <<s[i]>> \o RemoveEmailLike(s, i + 1)

FillerWords ==
  { <<"m","o","c","k">>, <<"i","n","t","e","r","v","i","e","w">>,
    <<"e","n","g">>, <<"f","r","o","n","t","e","n","d">>,
    <<"b","a","c","k","e","n","d">>, <<"c","h","a","t">>,
    <<"w","i","t","h">> }

\* name.replace(/\b(mock|interview|eng|frontend|backend|chat|with)\b/gi, ""):
\* between two word boundaries lies a whole run of word characters
RECURSIVE RemoveFillerWords(_, _)
RemoveFillerWords(s, i) ==
  IF i > Len(s) THEN << >>
  ELSE IF IsWordChar(s[i])
       THEN LET j == RunEnd(s, i)
                run == SubSeq(s, i, j)
            IN  (IF ToLowerCase(run) \in FillerWords THEN << >> ELSE run)
                  \o RemoveFillerWords(s, j + 1)
       ELSE <<s[i]>> \o RemoveFillerWords(s, i + 1)

ShortWordLength == 2
LongNameLength == 20
Ellipsis == <<".", ".", ".">>

IsMeaningfulWord(w) == Len(w) > ShortWordLength

extractShortName(fullName) ==
  LET name  == RemoveFillerWords(RemoveEmailLike(fullName, 1), 1)
      words == SelectSeq(SplitSpaces(name), IsMeaningfulWord)
  IN  IF Len(words) > 0 THEN words[1]
      ELSE IF Len(fullName) > LongNameLength
           THEN Substring0(fullName, LongNameLength) \o Ellipsis
           ELSE fullName

\* the sender mapping given to a hash when none was built (null)
NoMapping == [s \in {} |-> s]

normalizeSenderName(msg, senderMapping) ==
  LET sender == Trim(msg.formattedName)
  IN  IF sender \in DOMAIN senderMapping THEN senderMapping[sender]
      ELSE IF sender = You THEN SELF
      ELSE IF phonePatterns(sender) THEN normalizedPhone(sender)
      ELSE IF Trim(msg.displayName) # << >> THEN Trim(msg.displayName)
      ELSE extractShortName(sender)

(***************************************************************************)
(* buildSenderMapping: the statistics over the whole batch                 *)
(***************************************************************************)
SampleLimit == 5
SampleLength == 100
CompareCount == 3

\* the senders of the batch in the order a Map keeps them: first insertion
RECURSIVE DistinctInOrder(_, _)
DistinctInOrder(s, seen) ==
  IF s = << >> THEN << >>
  ELSE IF Head(s) \in seen THEN DistinctInOrder(Tail(s), seen)
       ELSE <<Head(s)>> \o DistinctInOrder(Tail(s), seen \cup {Head(s)})

SendersOf(allMessages) ==
  DistinctInOrder([i \in 1..Len(allMessages) |->
                     Trim(allMessages[i].formattedName)], {})

MessagesOfSender(allMessages, sender) ==
  LET IsFrom(m) == Trim(m.formattedName) = sender
  IN  SelectSeq(allMessages, IsFrom)

\* stats.displayNames: a Set, in insertion order
DisplayNamesOf(allMessages, sender) ==
  LET own == MessagesOfSender(allMessages, sender)
      NonEmpty(d) == d # << >>
  IN  DistinctInOrder(
        SelectSeq([i \in 1..Len(own) |-> Trim(own[i].displayName)], NonEmpty),
        {})

\* stats.sampleMessages
SampleMessagesOf(allMessages, sender) ==
  LET own == MessagesOfSender(allMessages, sender)
      n   == IF Len(own) < SampleLimit THEN Len(own) ELSE SampleLimit
  IN  [i \in 1..n |-> Substring0(Trim(own[i].messageBody), SampleLength)]

Space == <<" ">>

\* intersection.size / union.size > 0.2, in integers
calculateMessageSimilarityAbove(messages1, messages2) ==
  IF Len(messages1) = 0 \/ Len(messages2) = 0 THEN FALSE
  ELSE LET words1 == Range(SplitSpaces(ToLowerCase(Join(messages1, Space))))
           words2 == Range(SplitSpaces(ToLowerCase(Join(messages2, Space))))
       IN  5 * Cardinality(words1 \cap words2) > Cardinality(words1 \cup words2)

buildSenderMapping(jsonMessages, nativeMessages) ==
  LET allMessages == jsonMessages \o nativeMessages
      senders     == SendersOf(allMessages)
      IsName(s)   == ~phonePatterns(s) /\ s # You
      nameStats   == SelectSeq(senders, IsName)
      hasYou      == You \in Range(senders)
      Similar(s)  ==
        /\ Len(MessagesOfSender(allMessages, s)) > CompareCount
        /\ calculateMessageSimilarityAbove(SampleMessagesOf(allMessages, You),
                                           SampleMessagesOf(allMessages, s))
      \* the first name the loop maps to SELF before it breaks
      selfNames   == IF hasYou THEN SelectSeq(nameStats, Similar) ELSE << >>
      MapOf(s)    ==
        IF s = You THEN SELF
        ELSE IF phonePatterns(s) THEN normalizedPhone(s)
        ELSE IF selfNames # << >> /\ selfNames[1] = s THEN SELF
        ELSE IF DisplayNamesOf(allMessages, s) # << >>
             THEN DisplayNamesOf(allMessages, s)[1]
             ELSE extractShortName(s)
  IN  [s \in Range(senders) |-> MapOf(s)]

(***************************************************************************)
(* The two fingerprints                                                    *)
(***************************************************************************)
Colon == <<":">>

\* msg.messageType || "chat"; the absent type is the empty string
TypeText(messageType) ==
  CASE messageType = "chat"     -> <<"c","h","a","t">>
    [] messageType = ""         -> <<"c","h","a","t">>
    [] messageType = "image"    -> <<"i","m","a","g","e">>
    [] messageType = "video"    -> <<"v","i","d","e","o">>
    [] messageType = "audio"    -> <<"a","u","d","i","o">>
    [] messageType = "document" -> <<"d","o","c","u","m","e","n","t">>
    [] messageType = "pdf"      -> <<"p","d","f">>
    [] messageType = "sticker"  -> <<"s","t","i","c","k","e","r">>

\* `${normalizedSender}:${normalizedType}:${normalizedBody}`
ContentString(msg, senderMapping) ==
  normalizeSenderName(msg, senderMapping) \o Colon
    \o TypeText(msg.messageType) \o Colon \o Trim(msg.messageBody)

\* hash = (hash << 5) - hash + char; hash = hash & hash
\* a 32-bit integer is the pair <<high 16 bits, low 16 bits>>
HashStep(hash, char) ==
  LET lo == 31 * hash[2] + char
      hi == 31 * hash[1] + (lo \div 65536)
  IN  <<hi % 65536, lo % 65536>>

RECURSIVE HashFrom(_, _, _)
\* the loop holds a finished 32-bit value after every character: the test
\* hash \in Seq(Nat) has the value computed before the next step is taken
HashFrom(content, i, hash) ==
  IF hash \in Seq(Nat) /\ i > Len(content) THEN hash
  ELSE HashFrom(content, i + 1, HashStep(hash, CharCode(content[i])))

createMessageHash(msg, senderMapping) ==
  HashFrom(ContentString(msg, senderMapping), 1, <<0, 0>>)

WindowMs == 300000

\* the decimal digits of a natural number
RECURSIVE DecimalDigits(_)
DecimalDigits(n) ==
  IF n < 10 THEN <<DigitChars[n + 1]>>
  ELSE Append(DecimalDigits(n \div 10), DigitChars[(n % 10) + 1])

\* `${x}` of a number that holds an integer or NaN
NumberText(x) ==
  IF IsNaN(x) THEN <<"N","a","N">>
  ELSE IF Val(x) < 0 THEN <<"-">> \o DecimalDigits(0 - Val(x))
       ELSE DecimalDigits(Val(x))

\* a time-aware hash of the sender, the type and the window, with no body
createTimeAwareHashOfSender(msg, senderMapping) ==
  normalizeSenderName(msg, senderMapping) \o Colon
    \o TypeText(msg.messageType) \o Colon
    \o NumberText(FloorTo(msg.timestamp, WindowMs))

\* `${sender}:${type}:${body}:${roundedTimestamp}`
createTimeAwareHash(msg, senderMapping) ==
  ContentString(msg, senderMapping) \o Colon
    \o NumberText(FloorTo(msg.timestamp, WindowMs))

(***************************************************************************)
(* Dates.  A date-time is a number of seconds of wall-clock time counted   *)
(* from 2025-01-01 00:00:00; the string "YYYY-MM-DD HH:MM:SS" of the code  *)
(* is that number.  tz is the UTC offset of the machine in seconds (local  *)
(* time minus UTC).  The calendar covers December 2024 and January 2025.   *)
(***************************************************************************)
SecondsPerDay == 24 * 60 * 60

Digit(n) == DigitChars[n + 1]
Pad2(n) == <<Digit((n \div 10) % 10), Digit(n % 10)>>
\* Number.prototype.toString for 0..99
Dec(n) == IF n < 10 THEN <<Digit(n)>> ELSE Pad2(n)

DayIndex(t) == t \div SecondsPerDay
YearOf(t)  == IF DayIndex(t) >= 0 THEN 2025 ELSE 2024
MonthOf(t) == IF DayIndex(t) >= 0 THEN 1 ELSE 12
DateOf(t)  == IF DayIndex(t) >= 0 THEN DayIndex(t) + 1 ELSE 32 + DayIndex(t)
HoursOf(t)   == (t % SecondsPerDay) \div 3600
MinutesOf(t) == (t % 3600) \div 60
SecondsOf(t) == t % 60

Year4(y) == Pad2(y \div 100) \o Pad2(y % 100)

NaNText == <<"N","a","N">>
\* the fields of an Invalid Date are NaN: "NaN".padStart(2, "0") is "NaN" and
\* "NaN".slice(-2) is "aN"
InvalidDateText(originalFormat) ==
  LET euText == NaNText \o <<".">> \o NaNText \o <<".">> \o NaNText
                  \o <<",", " ">> \o NaNText \o <<":">> \o NaNText
                  \o <<":">> \o NaNText
  IN  CASE originalFormat = "EU" -> <<"[">> \o euText \o <<"]">>
        [] originalFormat = "EU_NO_BRACKETS" -> euText
        [] OTHER -> NaNText \o <<"/">> \o NaNText \o <<"/">> \o <<"a","N">>
                      \o <<",", " ">> \o NaNText \o <<":">> \o NaNText

\* new Date(isoDate) of a "YYYY-MM-DD HH:MM:SS" string reads it as local
\* time, and getMonth() .. getSeconds() give the same fields back
convertToNativeDate(isoDate, originalFormat) ==
  IF IsNaN(isoDate) THEN InvalidDateText(originalFormat) ELSE
  LET t == Val(isoDate)
      euText == Pad2(DateOf(t)) \o <<".">> \o Pad2(MonthOf(t)) \o <<".">>
                  \o Year4(YearOf(t)) \o <<",", " ">> \o Pad2(HoursOf(t))
                  \o <<":">> \o Pad2(MinutesOf(t)) \o <<":">> \o Pad2(SecondsOf(t))
  IN  CASE originalFormat = "EU" -> <<"[">> \o euText \o <<"]">>
        [] originalFormat = "EU_NO_BRACKETS" -> euText
        [] OTHER -> Dec(MonthOf(t)) \o <<"/">> \o Dec(DateOf(t)) \o <<"/">>
                      \o Pad2(YearOf(t) % 100) \o <<",", " ">> \o Dec(HoursOf(t))
                      \o <<":">> \o Pad2(MinutesOf(t))

\* the date-time a date text of the given style shows: the US style has no
\* seconds
ShownTime(style, t) == IF style \in {"EU", "EU_NO_BRACKETS"} THEN t ELSE t - (t % 60)

\* normalizeDate: the fields are read as local time (new Date(y, m, d, ...))
\* and toISOString() gives the UTC string: the wall clock moved by the offset
normalizeDate(date, tzOffset) == Num(date - tzOffset)

\* new Date("YYYY-MM-DD HH:MM:SS").getTime(): the string is read as local time
DateGetTime(messageTime, tzOffset) ==
  IF IsNaN(messageTime) THEN NaN ELSE Num((Val(messageTime) - tzOffset) * 1000)

(***************************************************************************)
(* The transcript.  A line is [style, date, text]: a date text of one of   *)
(* the three styles followed by text, or (style "none") text alone.        *)
(***************************************************************************)
DateStyles == {"US", "EU", "EU_NO_BRACKETS"}

\* the characters of a line as the file holds them
LineText(line) ==
  IF line.style = "none" THEN line.text
  ELSE convertToNativeDate(Num(line.date), line.style) \o line.text

\* line.trim(): a date text begins and ends with no white space
TrimLine(line) ==
  IF line.style = "none" THEN [line EXCEPT !.text = Trim(line.text)]
  ELSE IF Trim(line.text) = << >> THEN [line EXCEPT !.text = << >>]
  ELSE [line EXCEPT !.text =
          SubSeq(line.text, 1,
                 CHOOSE i \in 1..Len(line.text) :
                   ~IsSpace(line.text[i])
                   /\ \A j \in (i+1)..Len(line.text) : IsSpace(line.text[j]))]

ColonSpace == <<":", " ">>
Dash == <<" ", "-", " ">>

\* (.+?): (.*)$ : the shortest non-empty sender that ": " follows
HasSender(rest) == \E k \in 2..Len(rest) : MatchAt(rest, ColonSpace, k)
SenderEnd(rest) ==
  CHOOSE k \in 2..Len(rest) :
    MatchAt(rest, ColonSpace, k) /\ \A j \in 2..(k-1) : ~MatchAt(rest, ColonSpace, j)

\* what follows the date text in a message line of the style
AfterDate(line) ==
  IF line.style = "US" THEN Slice(line.text, Len(Dash) + 1, Len(line.text))
  ELSE Slice(line.text, 2, Len(line.text))

\* DATE_FORMATS.MESSAGE_US, MESSAGE_EU, MESSAGE_EU_NO_BRACKETS
messageMatch(line) ==
  /\ line.style \in DateStyles
  /\ IF line.style = "US" THEN StartsWith(line.text, Dash)
                          ELSE StartsWith(line.text, Space)
  /\ HasSender(AfterDate(line))

MatchedSender(line) ==
  LET rest == AfterDate(line) IN Slice(rest, 1, SenderEnd(rest) - 1)
MatchedContent(line) ==
  LET rest == AfterDate(line) IN Slice(rest, SenderEnd(rest) + 2, Len(rest))

\* DATE_FORMATS.SYSTEM: the US date only
systemMatch(line) == line.style = "US" /\ StartsWith(line.text, Dash)

FileAttached == <<"(","f","i","l","e"," ","a","t","t","a","c","h","e","d",")">>
AttachedOpen == <<"<","a","t","t","a","c","h","e","d",":">>

\* path.extname(filename).toLowerCase()
LastIndexOfChar(s, c) ==
  IF \E i \in 1..Len(s) : s[i] = c
  THEN CHOOSE i \in 1..Len(s) : s[i] = c /\ \A j \in (i+1)..Len(s) : s[j] # c
  ELSE 0
extname(filename) ==
  LET base == Slice(filename, LastIndexOfChar(filename, "/") + 1, Len(filename))
      dot  == LastIndexOfChar(base, ".")
  IN  IF dot <= 1 THEN << >> ELSE ToLowerCase(Slice(base, dot, Len(base)))

ImageExts == { <<".","j","p","g">>, <<".","j","p","e","g">>, <<".","p","n","g">>,
               <<".","g","i","f">>, <<".","w","e","b","p">> }
VideoExts == { <<".","m","p","4">>, <<".","a","v","i">>, <<".","m","o","v">>,
               <<".","m","k","v">>, <<".","m","p","e","g">> }
AudioExts == { <<".","m","p","3">>, <<".","w","a","v">>, <<".","o","g","g">>,
               <<".","m","4","a">> }
PdfExt == <<".","p","d","f">>

TypeOfExtension(ext) ==
  IF ext \in ImageExts THEN "image"
  ELSE IF ext \in VideoExts THEN "video"
  ELSE IF ext \in AudioExts THEN "audio"
  ELSE IF ext = PdfExt THEN "pdf"
  ELSE "document"

\* content.match(/<attached:\s*([^>]+)>/): the first occurrence
AttachedName(content) ==
  LET from   == IndexOf(content, AttachedOpen) + Len(AttachedOpen)
      after  == Slice(content, from, Len(content))
      close  == IndexOf(after, <<">">>)
      inside == Slice(after, 1, close - 1)
      IsLead(i) == \A j \in 1..i : IsSpace(inside[j])
      lead   == IF inside = << >> THEN 0
                ELSE CHOOSE i \in 0..Len(inside) : IsLead(i) /\ (i = Len(inside) \/ ~IsSpace(inside[i+1]))
  IN  IF close <= 1 THEN << >>
      ELSE IF lead = Len(inside) THEN <<inside[Len(inside)]>>
      ELSE Slice(inside, lead + 1, Len(inside))

\* the message a message line starts
MessageOfLine(line, tzOffset) ==
  LET sender   == MatchedSender(line)
      content  == MatchedContent(line)
      isFile   == Includes(content, FileAttached)
      filename == RemoveFirst(content, Space \o FileAttached)
      isTagged == ~isFile /\ Includes(content, AttachedOpen)
                    /\ AttachedName(content) # << >>
      normalizedDate == normalizeDate(line.date, tzOffset)
      displayName ==
        IF StartsWith(sender, <<"+">>) THEN << >>
        ELSE IF StartsWith(sender, <<"~">>) THEN Tail(sender)
        ELSE sender
  IN  [ formattedName |-> IF StartsWith(sender, <<"~">>) THEN Tail(sender) ELSE sender,
        displayName   |-> displayName,
        messageTime   |-> normalizedDate,
        messageType   |-> IF isFile THEN TypeOfExtension(extname(filename))
                          ELSE IF isTagged THEN "image" ELSE "chat",
        messageBody   |-> IF isFile THEN filename
                          ELSE IF isTagged THEN AttachedName(content) ELSE content,
        timestamp     |-> DateGetTime(normalizedDate, tzOffset),
        source        |-> "native",
        isAttachment  |-> isFile \/ isTagged,
        originalDateFormat |-> line.style ]

\* the chat message a continuation line starts after an attachment: the new
\* object is built without the displayName of the attachment
MessageAfterAttachment(currentMessage, text) ==
  [ formattedName |-> currentMessage.formattedName,
    displayName   |-> << >>,
    messageTime   |-> currentMessage.messageTime,
    messageType   |-> "chat",
    messageBody   |-> text,
    timestamp     |-> currentMessage.timestamp,
    source        |-> "native",
    isAttachment  |-> FALSE,
    originalDateFormat |-> currentMessage.originalDateFormat ]

NewLine == <<"\n">>

\* the loop of parseNativeFile from line i on; current is << >> (null) or
\* <<currentMessage>>
RECURSIVE ParseLines(_, _, _, _, _)
ParseLines(lines, i, messages, current, tzOffset) ==
  IF i > Len(lines) THEN messages \o current
  ELSE
    LET line == TrimLine(lines[i])
        text == LineText(line)
    IN  IF text = << >> THEN ParseLines(lines, i + 1, messages, current, tzOffset)
        ELSE IF messageMatch(line)
        THEN ParseLines(lines, i + 1, messages \o current,
                        <<MessageOfLine(line, tzOffset)>>, tzOffset)
        ELSE IF systemMatch(line)
        THEN ParseLines(lines, i + 1, messages, current, tzOffset)
        ELSE IF current # << >> /\ ~Includes(text, Dash)
        THEN IF current[1].messageType # "chat"
             THEN ParseLines(lines, i + 1, messages \o current,
                             <<MessageAfterAttachment(current[1], text)>>, tzOffset)
             ELSE ParseLines(lines, i + 1, messages,
                             <<[current[1] EXCEPT !.messageBody = @ \o NewLine \o text]>>,
                             tzOffset)
        ELSE ParseLines(lines, i + 1, messages, current, tzOffset)

parseNativeFile(lines, tzOffset) == ParseLines(lines, 1, << >>, << >>, tzOffset)

(***************************************************************************)
(* chats.json.  The file holds text that is no JSON ("garbage"), a JSON    *)
(* value that is no array ("value"), or an array ("array") whose items     *)
(* are objects, numbers or nulls.  A field an object lacks is empty.       *)
(***************************************************************************)
\* {...msg, timestamp, source, isAttachment, originalDateFormat}
MessageOfItem(item, tzOffset) ==
  [ formattedName |-> item.formattedName,
    displayName   |-> item.displayName,
    messageTime   |-> item.messageTime,
    messageType   |-> item.messageType,
    messageBody   |-> item.messageBody,
    timestamp     |-> DateGetTime(item.messageTime, tzOffset),
    source        |-> "json",
    isAttachment  |-> item.messageType # "chat",
    originalDateFormat |-> "US" ]

\* JSON.parse throws on garbage, messages.map is no function of a value that
\* is no array, and msg.messageTime of null throws
parseJsonThrows(file) ==
  \/ file.kind \in {"garbage", "value"}
  \/ file.kind = "array" /\ \E i \in 1..Len(file.items) : file.items[i].kind = "null"

parseJsonFile(file, tzOffset) ==
  [i \in 1..Len(file.items) |-> MessageOfItem(file.items[i], tzOffset)]

(***************************************************************************)
(* mergeMessages                                                           *)
(***************************************************************************)
\* Array.prototype.sort((a, b) => a.timestamp - b.timestamp) is stable
RECURSIVE InsertByTimestamp(_, _)
InsertByTimestamp(sorted, msg) ==
  IF sorted = << >> THEN <<msg>>
  ELSE IF Val(sorted[Len(sorted)].timestamp) <= Val(msg.timestamp)
       THEN Append(sorted, msg)
       ELSE Append(InsertByTimestamp(SubSeq(sorted, 1, Len(sorted) - 1), msg),
                   sorted[Len(sorted)])

RECURSIVE StableSort(_, _)
StableSort(messages, n) ==
  IF n = 0 THEN << >>
  ELSE InsertByTimestamp(StableSort(messages, n - 1), messages[n])

RemoveAt(s, i) == Slice(s, 1, i - 1) \o Slice(s, i + 1, Len(s))

\* the orders of the messages of s: one for each choice of the next message
RECURSIVE Orderings(_)
Orderings(s) ==
  IF Len(s) <= 1 THEN {s}
  ELSE UNION { { <<msg>> \o rest :
                   rest \in Orderings(RemoveAt(s, CHOOSE i \in 1..Len(s) : s[i] = msg)) }
               : msg \in Range(s) }

\* the orders the sort may leave the messages in.  A difference with a NaN
\* timestamp is NaN: the comparator is then not a consistent one, and the
\* order of the result is implementation-defined
SortOutcomes(messages) ==
  IF \E i \in 1..Len(messages) : IsNaN(messages[i].timestamp)
  THEN Orderings(messages)
  ELSE {StableSort(messages, Len(messages))}

\* the two hashes the loop computes for a message, for every message of the
\* batch
HashesOf(messages, senderMapping) ==
  [ msg \in Range(messages) |->
      [ contentHash   |-> createMessageHash(msg, senderMapping),
        timeAwareHash |-> createTimeAwareHash(msg, senderMapping) ] ]

\* a loop that looks only at the time-aware hashes
RECURSIVE DedupLoopTimeAwareOnly(_, _, _, _, _, _)
DedupLoopTimeAwareOnly(allMessages, i, hashes, seenContentHashes, seenTimeAwareHashes, mergedMessages) ==
  IF i > Len(allMessages) THEN mergedMessages
  ELSE
    LET msg == allMessages[i]
        timeAwareHash == hashes[msg].timeAwareHash
    IN  IF timeAwareHash \in seenTimeAwareHashes
        THEN DedupLoopTimeAwareOnly(allMessages, i + 1, hashes, seenContentHashes,
                                    seenTimeAwareHashes, mergedMessages)
        ELSE DedupLoopTimeAwareOnly(allMessages, i + 1, hashes, seenContentHashes,
                                    seenTimeAwareHashes \cup {timeAwareHash},
                                    Append(mergedMessages, msg))

\* the loop over the sorted messages with the two sets of seen hashes
RECURSIVE DedupLoop(_, _, _, _, _, _)
DedupLoop(allMessages, i, hashes, seenContentHashes, seenTimeAwareHashes, mergedMessages) ==
  IF i > Len(allMessages) THEN mergedMessages
  ELSE
    LET msg == allMessages[i]
        contentHash   == hashes[msg].contentHash
        timeAwareHash == hashes[msg].timeAwareHash
    IN  IF contentHash \in seenContentHashes
        THEN DedupLoop(allMessages, i + 1, hashes, seenContentHashes,
                       seenTimeAwareHashes, mergedMessages)
        ELSE IF timeAwareHash \in seenTimeAwareHashes
        THEN DedupLoop(allMessages, i + 1, hashes, seenContentHashes,
                       seenTimeAwareHashes, mergedMessages)
        ELSE DedupLoop(allMessages, i + 1, hashes,
                       seenContentHashes \cup {contentHash},
                       seenTimeAwareHashes \cup {timeAwareHash},
                       Append(mergedMessages, msg))

\* a merge that sorts and drops nothing
mergeMessagesSortOnly(jsonMessages, nativeMessages) ==
  SortOutcomes(jsonMessages \o nativeMessages)

\* the results mergeMessages can return: one for each order the sort can give
mergeMessages(jsonMessages, nativeMessages) ==
  LET senderMapping == buildSenderMapping(jsonMessages, nativeMessages)
      hashes == HashesOf(jsonMessages \o nativeMessages, senderMapping)
  IN  { DedupLoop(allMessages, 1, hashes, {}, {}, << >>) :
          allMessages \in SortOutcomes(jsonMessages \o nativeMessages) }

(***************************************************************************)
(* The merge of the later version (unnamed/part_012): the hashes take no   *)
(* sender mapping, the content hash holds the minute of the message, and   *)
(* each source is deduplicated by itself, in file order, before the two    *)
(* are put together and sorted.                                            *)
(***************************************************************************)
MinuteMs == 60000

\* myIdentifiers.some(id => id === formattedName || id === displayName)
isMyMessage(msg, identifiers) ==
  Trim(msg.formattedName) \in identifiers \/ Trim(msg.displayName) \in identifiers

\* SELF, the phone number without its punctuation, or the first word of the
\* name when that word has more than two characters
normalizedSender(msg, identifiers) ==
  LET sender    == Trim(msg.formattedName)
      nameParts == SplitSpaces(sender)
  IN  IF isMyMessage(msg, identifiers) THEN SELF
      ELSE IF phonePatterns(sender) THEN normalizedPhone(sender)
      ELSE IF Len(nameParts) > 0 /\ Len(nameParts[1]) > 2 THEN nameParts[1]
      ELSE sender

\* msg.timestamp || 0
TimestampOrZero(msg) == IF IsNaN(msg.timestamp) THEN Num(0) ELSE msg.timestamp

\* the start of the local minute of messageTime; of the timestamp when
\* messageTime is no date
roundedTimeValue(msg, tzOffset) ==
  IF IsNaN(DateGetTime(msg.messageTime, tzOffset))
  THEN FloorTo(TimestampOrZero(msg), MinuteMs)
  ELSE FloorTo(DateGetTime(msg.messageTime, tzOffset), MinuteMs)

\* `${normalizedSender}:${normalizedType}:${normalizedBody}`
DeterministicContent(msg, identifiers) ==
  normalizedSender(msg, identifiers) \o Colon \o TypeText(msg.messageType)
    \o Colon \o ToLowerCase(Trim(msg.messageBody))

\* createMessageHash of the later version
createMessageHashOfMinute(msg, identifiers, tzOffset) ==
  HashFrom(DeterministicContent(msg, identifiers) \o Colon
             \o NumberText(roundedTimeValue(msg, tzOffset)), 1, <<0, 0>>)

\* createTimeAwareHash of the later version
createTimeAwareHashOfWindow(msg, identifiers) ==
  DeterministicContent(msg, identifiers) \o Colon
    \o NumberText(FloorTo(TimestampOrZero(msg), WindowMs))

\* keeps, in the order of the file, the first message of every content hash
RECURSIVE deduplicateMessages(_, _, _)
deduplicateMessages(messages, identifiers, tzOffset) ==
  IF messages = << >> THEN << >>
  ELSE LET n    == Len(messages)
           msg  == messages[n]
           uniqueMessages == deduplicateMessages(SubSeq(messages, 1, n - 1),
                                                 identifiers, tzOffset)
       IN  IF \E k \in 1..Len(uniqueMessages) :
                createMessageHashOfMinute(uniqueMessages[k], identifiers, tzOffset)
                  = createMessageHashOfMinute(msg, identifiers, tzOffset)
           THEN uniqueMessages
           ELSE Append(uniqueMessages, msg)

\* the two hashes of the later version, for every message of the batch
DeterministicHashesOf(messages, identifiers, tzOffset) ==
  [ msg \in Range(messages) |->
      [ contentHash   |-> createMessageHashOfMinute(msg, identifiers, tzOffset),
        timeAwareHash |-> createTimeAwareHashOfWindow(msg, identifiers) ] ]

\* mergeMessages of the later version
mergeDeduplicated(json, native, identifiers, tzOffset) ==
  LET uniqueJsonMessages   == deduplicateMessages(json, identifiers, tzOffset)
      uniqueNativeMessages == deduplicateMessages(native, identifiers, tzOffset)
      hashes == DeterministicHashesOf(uniqueJsonMessages \o uniqueNativeMessages,
                                      identifiers, tzOffset)
  IN  { DedupLoop(allMessages, 1, hashes, {}, {}, << >>) :
          allMessages \in SortOutcomes(uniqueJsonMessages \o uniqueNativeMessages) }

(***************************************************************************)
(* messagesToJson and messagesToNative                                     *)
(***************************************************************************)
\* JSON.stringify leaves out a field that is undefined; displayName is
\* written when it is not empty
messagesToJson(messages) ==
  [ kind  |-> "array",
    items |-> [k \in 1..Len(messages) |->
                 [ kind          |-> "object",
                   formattedName |-> messages[k].formattedName,
                   displayName   |-> messages[k].displayName,
                   messageTime   |-> messages[k].messageTime,
                   messageType   |-> messages[k].messageType,
                   messageBody   |-> messages[k].messageBody ]] ]

Undefined == <<"u","n","d","e","f","i","n","e","d">>
\* `${value}` of a field the message lacks
TemplateText(value) == IF value = << >> THEN Undefined ELSE value

\* the line of the file that begins with the date text of messageTime
DatedLine(messageTime, style, text) ==
  IF IsNaN(messageTime)
  THEN [style |-> "none", date |-> 0, text |-> InvalidDateText(style) \o text]
  ELSE [style |-> style, date |-> ShownTime(style, Val(messageTime)), text |-> text]

\* text.split("\n") as the lines of the file
RECURSIVE SplitLines(_)
SplitLines(text) ==
  LET at == IndexOf(text, NewLine)
  IN  IF at = 0 THEN <<text>>
      ELSE <<Slice(text, 1, at - 1)>> \o SplitLines(Slice(text, at + 1, Len(text)))

\* the first sentence of the notice of the code; none of it holds ": "
EncryptionNotice ==
  <<"M","e","s","s","a","g","e","s"," ","a","n","d"," ","c","a","l","l","s",
    " ","a","r","e"," ","e","n","d","-","t","o","-","e","n","d"," ",
    "e","n","c","r","y","p","t","e","d",".">>

\* the lines one message is written as
LinesOfMessage(msg) ==
  LET isEU == msg.originalDateFormat \in {"EU", "EU_NO_BRACKETS"}
      style == IF isEU THEN msg.originalDateFormat ELSE "US"
      senderName == IF msg.displayName # << >> THEN msg.displayName
                    ELSE TemplateText(msg.formattedName)
      body == IF msg.messageType = "chat" THEN TemplateText(msg.messageBody)
              ELSE TemplateText(msg.messageBody) \o Space \o FileAttached
      parts == SplitLines((IF isEU THEN Space ELSE Dash) \o senderName
                             \o ColonSpace \o body)
  IN  <<DatedLine(msg.messageTime, style, parts[1])>>
        \o [k \in 1..(Len(parts) - 1) |->
              [style |-> "none", date |-> 0, text |-> parts[k + 1]]]

RECURSIVE LinesOfMessages(_, _)
LinesOfMessages(messages, k) ==
  IF k > Len(messages) THEN << >>
  ELSE LinesOfMessage(messages[k]) \o LinesOfMessages(messages, k + 1)

messagesToNative(messages) ==
  IF messages = << >> THEN << >>
  ELSE <<DatedLine(messages[1].messageTime, "US", Dash \o EncryptionNotice),
         DatedLine(messages[1].messageTime, "US", Dash)>>
         \o LinesOfMessages(messages, 1)

(***************************************************************************)
(* The chat directory.  A file is [exists, ...]; a media file is a pair    *)
(* <<directory, filename>>; a backup is the content copied and the         *)
(* Date.now() of its name.                                                 *)
(***************************************************************************)
MediaTypes == <<"image", "document", "video", "audio">>

getDirectoryForMessageType(messageType) ==
  CASE messageType = "image" -> "image"
    [] messageType \in {"document", "pdf"} -> "document"
    [] messageType = "video" -> "video"
    [] messageType = "audio" -> "audio"
    [] messageType = "sticker" -> "sticker"
    [] OTHER -> "document"

\* mkdirSync of each media directory that is not there
EnsureMediaDirs(dirs) == dirs \cup Range(MediaTypes)

\* copyFileSync(altFile, sourceFile) throws when the directory of the target
\* is not there or the file cannot be read
CopyThrows(dirs, unreadable, type, filename, sourceDir) ==
  sourceDir \notin dirs \/ <<type, filename>> \in unreadable

\* `Moved ${filename} from ${type}/ to ${sourceDir}/`
Moved(filename, type, sourceDir) == [filename |-> filename, from |-> type, to |-> sourceDir]

\* a loop that moves the file it finds: the file leaves the directory it was in
RECURSIVE CopyFromFirstMoving(_, _, _, _, _, _)
CopyFromFirstMoving(dirs, media, unreadable, i, filename, sourceDir) ==
  IF i > Len(MediaTypes)
  THEN [media EXCEPT !.warnings = @ \cup {<<"not found", filename>>}]
  ELSE IF <<MediaTypes[i], filename>> \notin media.files
       THEN CopyFromFirstMoving(dirs, media, unreadable, i + 1, filename, sourceDir)
       ELSE IF CopyThrows(dirs, unreadable, MediaTypes[i], filename, sourceDir)
            THEN CopyFromFirstMoving(dirs,
                   [media EXCEPT !.warnings = @ \cup {<<"failed to copy", filename>>}],
                   unreadable, i + 1, filename, sourceDir)
            ELSE [media EXCEPT
                    !.files = (@ \ {<<MediaTypes[i], filename>>})
                                \cup {<<sourceDir, filename>>},
                    !.moved = @ \cup {Moved(filename, MediaTypes[i], sourceDir)}]

\* the loop over mediaTypes for one missing file: an error of copyFileSync is
\* caught, a warning is printed and the loop goes on; found stops it
RECURSIVE CopyFromFirst(_, _, _, _, _, _)
CopyFromFirst(dirs, media, unreadable, i, filename, sourceDir) ==
  IF i > Len(MediaTypes)
  THEN [media EXCEPT !.warnings = @ \cup {<<"not found", filename>>}]
  ELSE IF <<MediaTypes[i], filename>> \notin media.files
       THEN CopyFromFirst(dirs, media, unreadable, i + 1, filename, sourceDir)
       ELSE IF CopyThrows(dirs, unreadable, MediaTypes[i], filename, sourceDir)
            THEN CopyFromFirst(dirs,
                   [media EXCEPT !.warnings = @ \cup {<<"failed to copy", filename>>}],
                   unreadable, i + 1, filename, sourceDir)
            ELSE [media EXCEPT
                    !.files = @ \cup {<<sourceDir, filename>>},
                    !.moved = @ \cup {Moved(filename, MediaTypes[i], sourceDir)}]

\* the loop over the attachment messages
RECURSIVE CopyMissing(_, _, _, _, _)
CopyMissing(dirs, media, unreadable, messages, k) ==
  IF k > Len(messages) THEN media
  ELSE
    LET msg == messages[k]
        sourceDir == getDirectoryForMessageType(msg.messageType)
    IN  IF msg.isAttachment /\ msg.messageBody # << >>
             /\ <<sourceDir, msg.messageBody>> \notin media.files
        THEN CopyMissing(dirs,
               CopyFromFirst(dirs, media, unreadable, 1, msg.messageBody, sourceDir),
               unreadable, messages, k + 1)
        ELSE CopyMissing(dirs, media, unreadable, messages, k + 1)

\* syncMediaFiles: the directories and the media files it leaves, the
\* warnings it prints and the copies it reports
syncMediaFiles(dirs, files, unreadable, messages) ==
  LET media == CopyMissing(EnsureMediaDirs(dirs),
                           [files |-> files, warnings |-> {}, moved |-> {}],
                           unreadable, messages, 1)
  IN  [ dirs |-> EnsureMediaDirs(dirs), files |-> media.files,
        warnings |-> media.warnings, moved |-> media.moved ]

ChatWith == <<"W","h","a","t","s","A","p","p"," ","C","h","a","t"," ","w","i","t","h"," ","+">>
DotTxt == <<".","t","x","t">>
EndsWith(s, suffix) ==
  Len(s) >= Len(suffix) /\ MatchAt(s, suffix, Len(s) - Len(suffix) + 1)

\* /^WhatsApp Chat with \+\d+.*\.txt$/
IsChatFile(file) ==
  /\ StartsWith(file, ChatWith)
  /\ Len(file) >= Len(ChatWith) + 1 + Len(DotTxt)
  /\ IsDigit(file[Len(ChatWith) + 1])
  /\ EndsWith(file, DotTxt)

\* /\+12 345 67 89 0/, /\+1234567890/, /\+9876543210/
testPatterns ==
  { <<"+","1","2"," ","3","4","5"," ","6","7"," ","8","9"," ","0">>,
    <<"+","1","2","3","4","5","6","7","8","9","0">>,
    <<"+","9","8","7","6","5","4","3","2","1","0">> }
IsTestFile(file) == \E pattern \in testPatterns : Includes(file, pattern)

GenericName == <<"W","h","a","t","s","A","p","p"," ","C","h","a","t",".","t","x","t">>
NumberedName == ChatWith \o <<"7","9","0","0">> \o DotTxt
TestName == ChatWith \o <<"1","2","3","4","5","6","7","8","9","0">> \o DotTxt
\* the names native_backups can hold, in the order readdirSync lists them
NativeNames == <<TestName, NumberedName, GenericName>>

NoPath == << >>
\* the file syncFormats takes as the transcript: the first chat file that is
\* no test file, else the first chat file, else none (null)
SelectChatFile(dirs, transcripts) ==
  LET files == SelectSeq(NativeNames, LAMBDA f : transcripts[f].exists)
      chatFiles == SelectSeq(files, IsChatFile)
      nonTest == SelectSeq(chatFiles, LAMBDA f : ~IsTestFile(f))
  IN  IF "native_backups" \notin dirs THEN NoPath
      ELSE IF nonTest # << >> THEN nonTest[1]
      ELSE IF chatFiles # << >> THEN chatFiles[1]
      ELSE NoPath

(***************************************************************************)
(* State                                                                   *)
(***************************************************************************)
VARIABLES
  tz,              \* the UTC offset of the machine, in seconds
  myIdentifiers,   \* the self-identity configuration: the labels that are "me"
  jsonMessages,    \* the messages parsed from chats.json
  nativeMessages,  \* the messages parsed from the transcript
  mergedMessages,  \* the result of mergeMessages
  remerged,        \* the result of merging mergedMessages again
  pc,              \* the position of the run
  chatsJson,       \* the file chats.json
  transcripts,     \* the files of native_backups, by name
  dirs,            \* the directories of the chat directory that exist
  mediaFiles,      \* the media files, <<directory, filename>>
  unreadable,      \* the media files that copyFileSync cannot read
  jsonBackups,     \* the chats.json.backup.<at> files
  nativeBackups,   \* the <name>.backup.<at> files of native_backups
  hasJson,         \* the locals of syncFormats
  hasNative,
  nativePath,
  written,         \* the files the run has written
  exitCode,        \* how the last run ended
  warnings,        \* the warnings syncMediaFiles has printed in the run
  runs,            \* the number of the run
  now,             \* Date.now()
  atStart,         \* the directory as the run found it
  history,         \* chats.json as each run that ended with success left it,
                   \* with the number of the run
  appender,        \* the NativeBackupAppender at work on one chat directory:
                   \* its counters, its position and the directory it sees
  config           \* configCache of loadConfig, the configuration files and
                   \* what the calls since the last reset read and returned

fileVars == <<chatsJson, transcripts, dirs, mediaFiles, jsonBackups, nativeBackups>>
runVars == <<hasJson, hasNative, nativePath, written, exitCode, warnings, runs,
             now, atStart, history>>
syncVars == <<config, tz, myIdentifiers, unreadable, jsonMessages, nativeMessages,
              mergedMessages, remerged, pc, fileVars, runVars>>
vars == <<appender, config, tz, myIdentifiers, unreadable, jsonMessages,
          nativeMessages, mergedMessages, remerged, pc, fileVars, runVars>>

(***************************************************************************)
(* Inputs                                                                  *)
(***************************************************************************)
TzOffsets == {0, 10800}

Bob   == <<"B","o","b">>
Bobby == <<"B","o","b","b","y">>
Zed   == <<"Z","e","d">>
Mike  == <<"M","i","k","e">>
PhoneSpaced == <<"+","7"," ","9","0","0">>
PhonePlain  == <<"+","7","9","0","0">>
BodyHi == <<"h","i">>
BodyAa == <<"A","a">>
BodyBB == <<"B","B">>

\* the configuration lists "You" and "Mike"
ConfiguredIdentifiers == {You, Mike}

Item(formattedName, displayName, messageTime, messageType, messageBody) ==
  [ kind |-> "object", formattedName |-> formattedName,
    displayName |-> displayName, messageTime |-> messageTime,
    messageType |-> messageType, messageBody |-> messageBody ]

\* an unparseable messageTime is NaN as a date
MergeItems ==
  { Item(Bob, Bobby, Num(600), "chat", BodyAa),
    Item(Bob, Zed, Num(0), "chat", BodyHi),
    Item(You, << >>, Num(0), "chat", BodyHi),
    Item(PhoneSpaced, << >>, Num(60), "chat", BodyHi),
    Item(Bob, << >>, NaN, "chat", BodyHi) }

Line(style, date, text) == [style |-> style, date |-> date, text |-> text]

MergeLines ==
  { Line("US", 0, Dash \o Zed \o ColonSpace \o BodyAa),
    Line("US", 0, Dash \o Zed \o ColonSpace \o BodyBB),
    Line("US", 0, Dash \o Mike \o ColonSpace \o BodyHi),
    Line("EU", 120, Space \o PhonePlain \o ColonSpace \o BodyHi) }

\* the most messages the two inputs of a merge hold together
MaxBatch == 3
\* the largest batch that holds an item with an invalid time
MaxWithInvalidTime == 2

HasInvalidTime(items) == \E i \in 1..Len(items) : IsNaN(items[i].messageTime)

SeqsUpTo(S, n) == UNION { [1..k -> S] : k \in 0..n }

ArrayFile(items) == [kind |-> "array", items |-> items]

NoFile == [exists |-> FALSE, lines |-> << >>]
FileOf(lines) == [exists |-> TRUE, lines |-> lines]
AbsentJson == [kind |-> "absent", items |-> << >>]
Snapshot(json, files, d, media, jb, nb) ==
  [ chatsJson |-> json, transcripts |-> files, dirs |-> d, mediaFiles |-> media,
    jsonBackups |-> jb, nativeBackups |-> nb ]

\* a configuration value: what JSON.parse gives, or null
ConfigValue(kind, identifiers) == [kind |-> kind, myIdentifiers |-> identifiers]
NullConfig == ConfigValue("null", << >>)
\* { myIdentifiers: ["You"] }
DefaultConfig == ConfigValue("object", <<You>>)

\* loadConfig has not been called: configCache is null and no file matters
IdleConfig ==
  [ configCache |-> NullConfig,
    files |-> [p \in {"main", "custom"} |-> ConfigValue("missing", << >>)],
    reads |-> 0, returned |-> << >>, calls |-> 0 ]

\* no NativeBackupAppender is at work
IdleAppender ==
  [ pc |-> "idle", zipFiles |-> << >>, zipIndex |-> 1, nativeBackups |-> FALSE,
    tempExtract |-> FALSE, appended |-> << >>, attachments |-> {},
    outcome |-> "none", syncRuns |-> 0, processedCount |-> 0, errorCount |-> 0 ]

\* no chat directory: mergeMessages alone touches no file
NoDirectory ==
  /\ appender = IdleAppender
  /\ config = IdleConfig
  /\ chatsJson = AbsentJson
  /\ transcripts = [f \in Range(NativeNames) |-> NoFile]
  /\ dirs = {}
  /\ mediaFiles = {}
  /\ unreadable = {}
  /\ jsonBackups = {}
  /\ nativeBackups = {}
  /\ hasJson = FALSE
  /\ hasNative = FALSE
  /\ nativePath = NoPath
  /\ written = {}
  /\ exitCode = "none"
  /\ warnings = {}
  /\ runs = 0
  /\ now = 0
  /\ atStart = Snapshot(chatsJson, transcripts, dirs, mediaFiles, jsonBackups,
                        nativeBackups)
  /\ history = << >>

(***************************************************************************)
(* SpecMerge: mergeMessages on what the two parsers give, and again on its *)
(* own result                                                              *)
(***************************************************************************)
MergeInit ==
  /\ tz \in TzOffsets
  /\ myIdentifiers = ConfiguredIdentifiers
  /\ \E items \in SeqsUpTo(MergeItems, MaxBatch),
        lines \in SeqsUpTo(MergeLines, MaxBatch) :
       /\ Len(items) + Len(lines) <= MaxBatch
       /\ HasInvalidTime(items) => Len(items) + Len(lines) <= MaxWithInvalidTime
       /\ jsonMessages = parseJsonFile(ArrayFile(items), tz)
       /\ nativeMessages = parseNativeFile(lines, tz)
  /\ mergedMessages = << >>
  /\ remerged = << >>
  /\ pc = "merge"
  /\ NoDirectory

Merge ==
  /\ pc = "merge"
  /\ mergedMessages' \in mergeMessages(jsonMessages, nativeMessages)
  /\ pc' = "merged"
  /\ UNCHANGED <<appender, config, tz, myIdentifiers, unreadable,
                 jsonMessages, nativeMessages, remerged,
                 fileVars, runVars>>

\* mergeMessages(M, [])
MergeAgainWithEmpty ==
  /\ pc = "merged"
  /\ remerged' \in mergeMessages(mergedMessages, << >>)
  /\ pc' = "remerged"
  /\ UNCHANGED <<appender, config, tz, myIdentifiers, unreadable,
                 jsonMessages, nativeMessages,
                 mergedMessages, fileVars, runVars>>

\* mergeMessages(M, M)
MergeAgainWithItself ==
  /\ pc = "merged"
  /\ remerged' \in mergeMessages(mergedMessages, mergedMessages)
  /\ pc' = "remerged"
  /\ UNCHANGED <<appender, config, tz, myIdentifiers, unreadable,
                 jsonMessages, nativeMessages,
                 mergedMessages, fileVars, runVars>>

MergeNext == Merge \/ MergeAgainWithEmpty \/ MergeAgainWithItself

SpecMerge == MergeInit /\ [][MergeNext]_vars

(***************************************************************************)
(* SpecSender: mergeMessages on chats.json items whose sender label is     *)
(* missing, blank, short, long or a filler word                            *)
(***************************************************************************)
MaxSenderBatch == 2

Blank == <<" ", " ">>
Al == <<"A","l">>
Chat == <<"c","h","a","t">>
\* 21 characters, no word of more than two
LongLabel == <<"a"," ","b"," ","c"," ","d"," ","e"," ","f"," ","g"," ","h"," ",
               "i"," ","j"," ","k">>
BobSmith == Bob \o Space \o <<"S","m","i","t","h">>

SenderLabels == { << >>, Blank, Al, Chat, LongLabel, BobSmith }
SenderDisplayNames == { << >>, Blank, Zed }

SenderItems ==
  { Item(label, displayName, Num(0), "chat", BodyHi) :
      label \in SenderLabels, displayName \in SenderDisplayNames }

SenderInit ==
  /\ tz \in TzOffsets
  /\ myIdentifiers = ConfiguredIdentifiers
  /\ \E items \in SeqsUpTo(SenderItems, MaxSenderBatch) :
       jsonMessages = parseJsonFile(ArrayFile(items), tz)
  /\ nativeMessages = << >>
  /\ mergedMessages = << >>
  /\ remerged = << >>
  /\ pc = "merge"
  /\ NoDirectory

SpecSender == SenderInit /\ [][MergeNext]_vars

(***************************************************************************)
(* Spec: runs of syncFormats on one chat directory                         *)
(***************************************************************************)
MaxRuns == 2
MaxSyncItems == 2
MaxSyncLines == 2

StickerName == <<"s",".","w","e","b","p">>
PhotoName == <<"p",".","j","p","g">>
BodyOk == <<"o","k">>
BodyMore == <<"m","o","r","e">>

\* {...1} is {}: an item that is a number gives a message with no field
NumberItem ==
  [ kind |-> "number", formattedName |-> << >>, displayName |-> << >>,
    messageTime |-> NaN, messageType |-> "", messageBody |-> << >> ]
NullItem == [NumberItem EXCEPT !.kind = "null"]

SyncItems ==
  { Item(Zed, << >>, Num(0), "chat", BodyHi),
    Item(Zed, << >>, Num(60), "sticker", StickerName),
    NumberItem,
    NullItem }

SyncLines ==
  { Line("EU", 0, Space \o Zed \o ColonSpace \o BodyHi),
    Line("EU_NO_BRACKETS", 120, Space \o Zed \o ColonSpace \o BodyOk),
    Line("US", 180, Dash \o Mike \o ColonSpace \o PhotoName \o Space \o FileAttached),
    Line("none", 0, BodyMore) }

\* what chats.json can hold
SyncJsonFiles ==
  { AbsentJson, [kind |-> "garbage", items |-> << >>],
    [kind |-> "value", items |-> << >>] }
    \cup { ArrayFile(items) : items \in SeqsUpTo(SyncItems, MaxSyncItems) }

InitialMedia == { <<"image", StickerName>>, <<"document", PhotoName>> }

Init ==
  /\ tz \in TzOffsets
  /\ myIdentifiers = ConfiguredIdentifiers
  /\ chatsJson \in SyncJsonFiles
  /\ \/ /\ transcripts = [f \in Range(NativeNames) |-> NoFile]
        /\ dirs = {"image", "document"}
     \/ /\ \E lines \in SeqsUpTo(SyncLines, MaxSyncLines) :
             /\ HasInvalidTime(chatsJson.items) =>
                  Len(chatsJson.items) + Len(lines) <= MaxWithInvalidTime
             /\ transcripts = [f \in Range(NativeNames) |->
                                 IF f = NumberedName THEN FileOf(lines) ELSE NoFile]
        /\ dirs = {"image", "document", "native_backups"}
  /\ mediaFiles = InitialMedia
  /\ unreadable = {}
  /\ jsonBackups = {}
  /\ nativeBackups = {}
  /\ jsonMessages = << >>
  /\ nativeMessages = << >>
  /\ mergedMessages = << >>
  /\ remerged = << >>
  /\ hasJson = FALSE
  /\ hasNative = FALSE
  /\ nativePath = NoPath
  /\ written = {}
  /\ exitCode = "none"
  /\ warnings = {}
  /\ runs = 1
  /\ now = 1
  /\ atStart = Snapshot(chatsJson, transcripts, dirs, mediaFiles, jsonBackups,
                        nativeBackups)
  /\ history = << >>
  /\ appender = IdleAppender
  /\ config = IdleConfig
  /\ pc = "start"

JsonExists == chatsJson.kind # "absent"
SelectedPath == SelectChatFile(dirs, transcripts)
NativeExists == SelectedPath # NoPath

Fail ==
  /\ pc' = "done"
  /\ exitCode' = "failed"
  /\ UNCHANGED <<appender, config, tz, myIdentifiers, unreadable,
                 jsonMessages, nativeMessages, mergedMessages,
                 remerged, fileVars, hasJson, hasNative, nativePath, written,
                 warnings, runs, now, atStart, history>>

\* neither file exists: process.exit(1)
ExitNoSource ==
  /\ pc = "start"
  /\ ~JsonExists
  /\ ~NativeExists
  /\ Fail

\* parseJsonFile throws: syncFormats ends with the exception, and the command
\* line interface exits with 1
ParseFails ==
  /\ pc = "start"
  /\ JsonExists
  /\ parseJsonThrows(chatsJson)
  /\ Fail

\* the files are found, parsed and merged
ReadAndMerge ==
  /\ pc = "start"
  /\ JsonExists \/ NativeExists
  /\ ~(JsonExists /\ parseJsonThrows(chatsJson))
  /\ hasJson' = JsonExists
  /\ hasNative' = NativeExists
  /\ nativePath' = SelectedPath
  /\ jsonMessages' = IF JsonExists THEN parseJsonFile(chatsJson, tz) ELSE << >>
  /\ nativeMessages' = IF NativeExists
                       THEN parseNativeFile(transcripts[SelectedPath].lines, tz)
                       ELSE << >>
  /\ mergedMessages' \in mergeMessages(jsonMessages', nativeMessages')
  /\ pc' = "backupJson"
  /\ UNCHANGED <<appender, config, tz, myIdentifiers, unreadable,
                 remerged, fileVars, written,
                 exitCode, warnings, runs, now, atStart, history>>

\* copyFileSync(jsonPath, jsonPath.backup.<Date.now()>)
BackupJson ==
  /\ pc = "backupJson"
  /\ jsonBackups' = IF hasJson
                    THEN { b \in jsonBackups : b.at # now }
                           \cup {[at |-> now, content |-> chatsJson]}
                    ELSE jsonBackups
  /\ pc' = "backupNative"
  /\ UNCHANGED <<appender, config, tz, myIdentifiers, unreadable,
                 jsonMessages, nativeMessages, mergedMessages,
                 remerged, chatsJson, transcripts, dirs, mediaFiles,
                 nativeBackups, runVars>>

\* copyFileSync(nativePath, nativePath.backup.<Date.now()>)
BackupNative ==
  /\ pc = "backupNative"
  /\ nativeBackups' =
       IF hasNative
       THEN { b \in nativeBackups : ~(b.name = nativePath /\ b.at = now) }
              \cup {[name |-> nativePath, at |-> now,
                     content |-> transcripts[nativePath].lines]}
       ELSE nativeBackups
  /\ pc' = "media"
  /\ UNCHANGED <<appender, config, tz, myIdentifiers, unreadable,
                 jsonMessages, nativeMessages, mergedMessages,
                 remerged, chatsJson, transcripts, dirs, mediaFiles, jsonBackups,
                 runVars>>

\* a syncMediaFiles that throws at the first warning
SyncMediaAborting ==
  /\ pc = "media"
  /\ LET media == syncMediaFiles(dirs, mediaFiles, unreadable, mergedMessages)
     IN  /\ dirs' = media.dirs
         /\ mediaFiles' = media.files
         /\ warnings' = media.warnings
         /\ pc' = IF media.warnings = {} THEN "writeJson" ELSE "done"
         /\ exitCode' = IF media.warnings = {} THEN exitCode ELSE "failed"
  /\ UNCHANGED <<appender, config, tz, myIdentifiers, unreadable,
                 jsonMessages, nativeMessages,
                 mergedMessages, remerged, chatsJson, transcripts, jsonBackups,
                 nativeBackups, hasJson, hasNative, nativePath, written,
                 runs, now, atStart, history>>

SyncMedia ==
  /\ pc = "media"
  /\ LET media == syncMediaFiles(dirs, mediaFiles, unreadable, mergedMessages)
     IN  /\ dirs' = media.dirs
         /\ mediaFiles' = media.files
         /\ warnings' = media.warnings
  /\ pc' = "writeJson"
  /\ UNCHANGED <<appender, config, tz, myIdentifiers, unreadable,
                 jsonMessages, nativeMessages,
                 mergedMessages, remerged, chatsJson, transcripts, jsonBackups,
                 nativeBackups, hasJson, hasNative, nativePath, written,
                 exitCode, runs, now, atStart, history>>

\* writeFileSync(jsonPath, JSON.stringify(messagesToJson(mergedMessages)))
WriteJson ==
  /\ pc = "writeJson"
  /\ chatsJson' = messagesToJson(mergedMessages)
  /\ written' = written \cup {"json"}
  /\ pc' = "writeNative"
  /\ UNCHANGED <<appender, config, tz, myIdentifiers, unreadable,
                 jsonMessages, nativeMessages, mergedMessages,
                 remerged, transcripts, dirs, mediaFiles, jsonBackups,
                 nativeBackups, hasJson, hasNative, nativePath, exitCode,
                 warnings, runs, now, atStart, history>>

\* native_backups is made when it is not there, a run that found no transcript
\* writes "WhatsApp Chat.txt", and the run ends
WriteNative ==
  /\ pc = "writeNative"
  /\ dirs' = dirs \cup {"native_backups"}
  /\ nativePath' = IF nativePath = NoPath THEN GenericName ELSE nativePath
  /\ transcripts' = [transcripts EXCEPT
                       ![nativePath'] = FileOf(messagesToNative(mergedMessages))]
  /\ written' = written \cup {"native"}
  /\ history' = Append(history, [run |-> runs, chatsJson |-> chatsJson])
  /\ exitCode' = "ok"
  /\ pc' = "done"
  /\ UNCHANGED <<appender, config, tz, myIdentifiers, unreadable,
                 jsonMessages, nativeMessages, mergedMessages,
                 remerged, chatsJson, mediaFiles, jsonBackups, nativeBackups,
                 hasJson, hasNative, warnings, runs, now, atStart>>

\* the process is killed between the two writes
Interrupt ==
  /\ pc = "writeNative"
  /\ pc' = "done"
  /\ exitCode' = "killed"
  /\ UNCHANGED <<appender, config, tz, myIdentifiers, unreadable,
                 jsonMessages, nativeMessages, mergedMessages,
                 remerged, fileVars, hasJson, hasNative, nativePath, written,
                 warnings, runs, now, atStart, history>>

\* syncFormats is started again on the directory, later
NextRun ==
  /\ pc = "done"
  /\ runs < MaxRuns
  /\ runs' = runs + 1
  /\ now' = now + 1
  /\ atStart' = Snapshot(chatsJson, transcripts, dirs, mediaFiles, jsonBackups,
                         nativeBackups)
  /\ jsonMessages' = << >>
  /\ nativeMessages' = << >>
  /\ mergedMessages' = << >>
  /\ hasJson' = FALSE
  /\ hasNative' = FALSE
  /\ nativePath' = NoPath
  /\ written' = {}
  /\ exitCode' = "none"
  /\ warnings' = {}
  /\ pc' = "start"
  /\ UNCHANGED <<appender, config, tz, myIdentifiers, unreadable,
                 remerged, fileVars, history>>

Next ==
  \/ ExitNoSource
  \/ ParseFails
  \/ ReadAndMerge
  \/ BackupJson
  \/ BackupNative
  \/ SyncMedia
  \/ WriteJson
  \/ WriteNative
  \/ Interrupt
  \/ NextRun

Spec == Init /\ [][Next]_vars

(***************************************************************************)
(* SpecMedia: runs of syncFormats on chat directories whose messages name  *)
(* media files that are in their directory, in another one, unreadable or  *)
(* nowhere                                                                 *)
(***************************************************************************)
MaxMediaItems == 1
MaxMediaLines == 1

MediaItems ==
  { Item(Zed, << >>, Num(60), "sticker", StickerName),
    Item(Zed, << >>, Num(0), "image", PhotoName) }

MediaLines ==
  { Line("US", 180, Dash \o Mike \o ColonSpace \o PhotoName \o Space \o FileAttached) }

MediaJsonFiles ==
  { AbsentJson, [kind |-> "garbage", items |-> << >>] }
    \cup { ArrayFile(items) : items \in SeqsUpTo(MediaItems, MaxMediaItems) }

\* the media files the directory holds at the start
MediaChoices ==
  { {},
    { <<"image", StickerName>>, <<"document", PhotoName>> },
    { <<"image", PhotoName>> },
    { <<"native_backups", PhotoName>> } }

MediaInit ==
  /\ tz \in TzOffsets
  /\ myIdentifiers = ConfiguredIdentifiers
  /\ chatsJson \in MediaJsonFiles
  /\ mediaFiles \in MediaChoices
  /\ unreadable \in SUBSET (mediaFiles \cap {<<"document", PhotoName>>})
  /\ \/ /\ transcripts = [f \in Range(NativeNames) |-> NoFile]
        /\ dirs = {"image", "document"} \cup { file[1] : file \in mediaFiles }
     \/ /\ \E lines \in SeqsUpTo(MediaLines, MaxMediaLines) :
             transcripts = [f \in Range(NativeNames) |->
                              IF f = NumberedName THEN FileOf(lines) ELSE NoFile]
        /\ dirs = {"image", "document", "native_backups"}
  /\ jsonBackups = {}
  /\ nativeBackups = {}
  /\ jsonMessages = << >>
  /\ nativeMessages = << >>
  /\ mergedMessages = << >>
  /\ remerged = << >>
  /\ hasJson = FALSE
  /\ hasNative = FALSE
  /\ nativePath = NoPath
  /\ written = {}
  /\ exitCode = "none"
  /\ warnings = {}
  /\ runs = 1
  /\ now = 1
  /\ atStart = Snapshot(chatsJson, transcripts, dirs, mediaFiles, jsonBackups,
                        nativeBackups)
  /\ history = << >>
  /\ appender = IdleAppender
  /\ config = IdleConfig
  /\ pc = "start"

SpecMedia == MediaInit /\ [][Next]_vars

(***************************************************************************)
(* SpecPair: mergeMessages on copies of one message in chats.json and in   *)
(* the transcript, the one earlier than the other or at the same time      *)
(***************************************************************************)
MaxPairItems == 2
MaxPairLines == 2

PairItems ==
  { Item(Zed, << >>, Num(60), "chat", BodyHi),
    Item(Zed, << >>, Num(0), "chat", BodyOk) }

PairLines ==
  { Line("US", 0, Dash \o Zed \o ColonSpace \o BodyHi),
    Line("US", 60, Dash \o Zed \o ColonSpace \o BodyHi),
    Line("US", 60, Dash \o Zed \o ColonSpace \o BodyOk) }

PairInit ==
  /\ tz \in TzOffsets
  /\ myIdentifiers = ConfiguredIdentifiers
  /\ \E items \in SeqsUpTo(PairItems, MaxPairItems),
        lines \in SeqsUpTo(PairLines, MaxPairLines) :
       /\ jsonMessages = parseJsonFile(ArrayFile(items), tz)
       /\ nativeMessages = parseNativeFile(lines, tz)
  /\ mergedMessages = << >>
  /\ remerged = << >>
  /\ pc = "merge"
  /\ NoDirectory

SpecPair == PairInit /\ [][MergeNext]_vars

(***************************************************************************)
(* SpecOrder: mergeMessages on batches of up to three messages of which    *)
(* one may have a messageTime that is no date                              *)
(***************************************************************************)
MaxOrderItems == 2
MaxOrderLines == 2
MaxOrderBatch == 3

OrderItems ==
  { Item(Bob, Bobby, Num(600), "chat", BodyAa),
    Item(Bob, << >>, NaN, "chat", BodyHi) }

OrderLines ==
  { Line("US", 0, Dash \o Zed \o ColonSpace \o BodyBB),
    Line("US", 60, Dash \o Zed \o ColonSpace \o BodyOk) }

OrderInit ==
  /\ tz \in TzOffsets
  /\ myIdentifiers = ConfiguredIdentifiers
  /\ \E items \in SeqsUpTo(OrderItems, MaxOrderItems),
        lines \in SeqsUpTo(OrderLines, MaxOrderLines) :
       /\ Len(items) + Len(lines) <= MaxOrderBatch
       /\ jsonMessages = parseJsonFile(ArrayFile(items), tz)
       /\ nativeMessages = parseNativeFile(lines, tz)
  /\ mergedMessages = << >>
  /\ remerged = << >>
  /\ pc = "merge"
  /\ NoDirectory

SpecOrder == OrderInit /\ [][MergeNext]_vars

(***************************************************************************)
(* SpecDedup: mergeMessages of src/unnamed/part_012 on batches whose       *)
(* files need not be in the order of time                                  *)
(***************************************************************************)
MaxDedupBatch == 3

DedupItems ==
  { Item(Bob, Bobby, Num(50), "chat", BodyHi),
    Item(Bob, Bobby, Num(10), "chat", BodyHi),
    Item(Bob, Bobby, Num(600), "chat", BodyAa),
    Item(Bob, Bobby, Num(660), "chat", BodyHi),
    Item(You, << >>, Num(10), "chat", BodyHi) }

DedupLines ==
  { Line("EU", 20, Space \o Bob \o ColonSpace \o BodyHi),
    Line("US", 0, Dash \o Zed \o ColonSpace \o BodyBB) }

DedupInit ==
  /\ tz \in TzOffsets
  /\ myIdentifiers = ConfiguredIdentifiers
  /\ \E items \in SeqsUpTo(DedupItems, MaxDedupBatch),
        lines \in SeqsUpTo(DedupLines, MaxDedupBatch) :
       /\ Len(items) + Len(lines) <= MaxDedupBatch
       /\ jsonMessages = parseJsonFile(ArrayFile(items), tz)
       /\ nativeMessages = parseNativeFile(lines, tz)
  /\ mergedMessages = << >>
  /\ remerged = << >>
  /\ pc = "merge"
  /\ NoDirectory

MergeDeduplicated ==
  /\ pc = "merge"
  /\ mergedMessages' \in mergeDeduplicated(jsonMessages, nativeMessages,
                                           myIdentifiers, tz)
  /\ pc' = "merged"
  /\ UNCHANGED <<appender, config, tz, myIdentifiers, unreadable,
                 jsonMessages, nativeMessages, remerged,
                 fileVars, runVars>>

SpecDedup == DedupInit /\ [][MergeDeduplicated]_vars

(***************************************************************************)
(* SpecConfig: calls of loadConfig and resetConfigCache of                 *)
(* src/unnamed/part_012 on a main and a custom configuration file          *)
(***************************************************************************)
MaxConfigCalls == 3

\* what a configuration file can hold: no file, text that is no JSON, the
\* JSON values null, false and 0, and two objects with myIdentifiers
ConfigContents ==
  { ConfigValue("missing", << >>), ConfigValue("garbage", << >>),
    ConfigValue("null", << >>), ConfigValue("false", << >>),
    ConfigValue("zero", << >>),
    ConfigValue("object", <<You, Mike>>), ConfigValue("object", <<Zed>>) }

\* !configCache
IsFalsy(value) == value.kind \in {"null", "false", "zero"}

\* the try block throws: readFileSync finds no file, JSON.parse finds no JSON,
\* or configCache.myIdentifiers of the log line is read of null
LoadThrows(content) == content.kind \in {"missing", "garbage", "null"}

\* customConfigPath || path.join(__dirname, "public", "config.json")
ConfigPath(customConfigPath) ==
  IF customConfigPath = "null" THEN "main" ELSE customConfigPath

ConfigInit ==
  /\ \E files \in [{"main", "custom"} -> ConfigContents] :
       config = [IdleConfig EXCEPT !.files = files]
  /\ appender = IdleAppender
  /\ tz = 0
  /\ myIdentifiers = ConfiguredIdentifiers
  /\ jsonMessages = << >>
  /\ nativeMessages = << >>
  /\ mergedMessages = << >>
  /\ remerged = << >>
  /\ pc = "idle"
  /\ chatsJson = AbsentJson
  /\ transcripts = [f \in Range(NativeNames) |-> NoFile]
  /\ dirs = {}
  /\ mediaFiles = {}
  /\ unreadable = {}
  /\ jsonBackups = {}
  /\ nativeBackups = {}
  /\ hasJson = FALSE
  /\ hasNative = FALSE
  /\ nativePath = NoPath
  /\ written = {}
  /\ exitCode = "none"
  /\ warnings = {}
  /\ runs = 0
  /\ now = 0
  /\ atStart = Snapshot(chatsJson, transcripts, dirs, mediaFiles, jsonBackups,
                        nativeBackups)
  /\ history = << >>

nonConfigVars == <<appender, tz, myIdentifiers, unreadable, jsonMessages, nativeMessages, mergedMessages, remerged, pc, fileVars, runVars>>

loadConfig ==
  /\ config.calls < MaxConfigCalls
  /\ \E customConfigPath \in {"null", "custom"} :
       LET configPath == ConfigPath(customConfigPath)
           content == config.files[configPath]
           loaded == IF ~IsFalsy(config.configCache) THEN config.configCache
                     ELSE IF LoadThrows(content) THEN DefaultConfig
                     ELSE content
       IN  config' = [config EXCEPT
                        !.configCache = loaded,
                        !.reads = IF IsFalsy(config.configCache) THEN @ + 1 ELSE @,
                        !.returned = Append(@, [path |-> configPath, value |-> loaded]),
                        !.calls = @ + 1]
  /\ UNCHANGED nonConfigVars

resetConfigCache ==
  /\ config' = [config EXCEPT !.configCache = NullConfig, !.reads = 0,
                              !.returned = << >>]
  /\ UNCHANGED nonConfigVars

ConfigNext == loadConfig \/ resetConfigCache

SpecConfig == ConfigInit /\ [][ConfigNext]_vars

(***************************************************************************)
(* SpecParse: parseNativeFile on transcripts of message lines, attachment  *)
(* lines, lines with no date and dated lines with no sender                *)
(***************************************************************************)
MaxParseLines == 3

BodyDashed == <<"a", " ", "-", " ", "b">>
Joined == <<"j","o","i","n","e","d">>
Locked == <<"l","o","c","k","e","d">>

ParsePool ==
  { Line("US", 0, Dash \o Zed \o ColonSpace \o BodyHi),
    Line("US", 60, Dash \o Zed \o ColonSpace \o PhotoName \o Space \o FileAttached),
    Line("none", 0, BodyMore),
    Line("none", 0, BodyDashed),
    Line("US", 120, Dash \o Joined),
    Line("EU", 120, Space \o Locked) }

ParseInit ==
  /\ tz \in TzOffsets
  /\ myIdentifiers = ConfiguredIdentifiers
  /\ \E lines \in SeqsUpTo(ParsePool, MaxParseLines) :
       transcripts = [f \in Range(NativeNames) |->
                        IF f = NumberedName THEN FileOf(lines) ELSE NoFile]
  /\ dirs = {"native_backups"}
  /\ chatsJson = AbsentJson
  /\ mediaFiles = {}
  /\ unreadable = {}
  /\ jsonBackups = {}
  /\ nativeBackups = {}
  /\ jsonMessages = << >>
  /\ nativeMessages = << >>
  /\ mergedMessages = << >>
  /\ remerged = << >>
  /\ hasJson = FALSE
  /\ hasNative = FALSE
  /\ nativePath = NoPath
  /\ written = {}
  /\ exitCode = "none"
  /\ warnings = {}
  /\ runs = 0
  /\ now = 0
  /\ atStart = Snapshot(chatsJson, transcripts, dirs, mediaFiles, jsonBackups,
                        nativeBackups)
  /\ history = << >>
  /\ appender = IdleAppender
  /\ config = IdleConfig
  /\ pc = "parse"

\* parseNativeFile(nativePath)
ParseTranscript ==
  /\ pc = "parse"
  /\ nativePath' = NumberedName
  /\ nativeMessages' = parseNativeFile(transcripts[NumberedName].lines, tz)
  /\ pc' = "parsed"
  /\ UNCHANGED <<appender, config, tz, myIdentifiers, unreadable, jsonMessages,
                 mergedMessages, remerged, fileVars, hasJson, hasNative,
                 written, exitCode, warnings, runs, now, atStart, history>>

ParseNext == ParseTranscript

SpecParse == ParseInit /\ [][ParseNext]_vars

(***************************************************************************)
(* SpecAppender: NativeBackupAppender.processChatDirectory on one chat     *)
(* directory (src/unnamed/part_010).  A zip file of native_backups_new is  *)
(* "chat" (it holds a chat text file and attachments), "noChat" (it holds  *)
(* no chat text file) or "corrupt" (unzip fails on it).  The run of        *)
(* sync_formats.js that runSync starts is a child process: here it is      *)
(* counted, and what it does to the directory is Spec.                     *)
(***************************************************************************)
MaxZips == 3

ZipKinds == {"chat", "noChat", "corrupt"}

AppenderInit ==
  /\ \E zipFiles \in SeqsUpTo(ZipKinds, MaxZips), dirThere, tempThere \in BOOLEAN :
       appender = [IdleAppender EXCEPT !.pc = "start", !.zipFiles = zipFiles,
                                       !.nativeBackups = dirThere,
                                       !.tempExtract = tempThere]
  /\ config = IdleConfig
  /\ tz = 0
  /\ myIdentifiers = ConfiguredIdentifiers
  /\ jsonMessages = << >>
  /\ nativeMessages = << >>
  /\ mergedMessages = << >>
  /\ remerged = << >>
  /\ pc = "idle"
  /\ chatsJson = AbsentJson
  /\ transcripts = [f \in Range(NativeNames) |-> NoFile]
  /\ dirs = {}
  /\ mediaFiles = {}
  /\ unreadable = {}
  /\ jsonBackups = {}
  /\ nativeBackups = {}
  /\ hasJson = FALSE
  /\ hasNative = FALSE
  /\ nativePath = NoPath
  /\ written = {}
  /\ exitCode = "none"
  /\ warnings = {}
  /\ runs = 0
  /\ now = 0
  /\ atStart = Snapshot(chatsJson, transcripts, dirs, mediaFiles, jsonBackups,
                        nativeBackups)
  /\ history = << >>

\* processChatDirectory up to the loop: native_backups is made, and with no
\* zip file the method returns
ListZipFiles ==
  /\ appender.pc = "start"
  /\ appender' = [appender EXCEPT
                    !.nativeBackups = TRUE,
                    !.pc = IF appender.zipFiles = << >> THEN "done" ELSE "zips"]
  /\ UNCHANGED syncVars

\* the position of the loop after the zip file at zipIndex
AfterZip == IF appender.zipIndex = Len(appender.zipFiles) THEN "sync" ELSE "zips"

\* processZipFile: extractZip throws, the catch removes the temporary
\* directory and throws again, and the catch of processChatDirectory ends the
\* directory
ExtractFails ==
  /\ appender.pc = "zips"
  /\ appender.zipFiles[appender.zipIndex] = "corrupt"
  /\ appender' = [appender EXCEPT !.tempExtract = FALSE,
                                  !.outcome = "threw",
                                  !.errorCount = @ + 1,
                                  !.pc = "done"]
  /\ UNCHANGED syncVars

\* processZipFile: findChatTextFile finds nothing, and the method returns
NoChatTextFile ==
  /\ appender.pc = "zips"
  /\ appender.zipFiles[appender.zipIndex] = "noChat"
  /\ appender' = [appender EXCEPT !.tempExtract = TRUE,
                                  !.outcome = "returned early",
                                  !.zipIndex = @ + 1,
                                  !.pc = AfterZip]
  /\ UNCHANGED syncVars

\* processZipFile to its end: the chat text is appended, the attachments are
\* copied and the temporary directory is removed
AppendZip ==
  /\ appender.pc = "zips"
  /\ appender.zipFiles[appender.zipIndex] = "chat"
  /\ appender' = [appender EXCEPT !.appended = Append(@, appender.zipIndex),
                                  !.attachments = @ \cup {appender.zipIndex},
                                  !.tempExtract = FALSE,
                                  !.outcome = "returned",
                                  !.zipIndex = @ + 1,
                                  !.pc = AfterZip]
  /\ UNCHANGED syncVars

processZipFile == ExtractFails \/ NoChatTextFile \/ AppendZip

\* runSync, whose errors are caught, and the end of processChatDirectory
runSync ==
  /\ appender.pc = "sync"
  /\ appender' = [appender EXCEPT !.syncRuns = @ + 1,
                                  !.processedCount = @ + 1,
                                  !.pc = "done"]
  /\ UNCHANGED syncVars

AppenderNext == ListZipFiles \/ processZipFile \/ runSync

SpecAppender == AppenderInit /\ [][AppenderNext]_vars

(***************************************************************************)
(* Properties of NativeBackupAppender, checked under SpecAppender          *)
(***************************************************************************)
\* C16: a failure on one zip file of a chat directory does not affect the
\* others: when processChatDirectory has ended, every zip file that holds a
\* chat text file was appended and the format synchronization was run.
C16_FailureDoesNotStopOthers ==
  (appender.pc = "done" /\ appender.zipFiles # << >>) =>
    /\ \A i \in 1..Len(appender.zipFiles) :
         appender.zipFiles[i] = "chat" => i \in Range(appender.appended)
    /\ appender.syncRuns = 1

\* the first zip file is corrupt and the second is good: processChatDirectory
\* has ended, the second was not appended and no synchronization was run
C16_GoodZipSkipped ==
  /\ appender.pc = "done"
  /\ appender.zipFiles = <<"corrupt", "chat">>
  /\ appender.outcome = "threw"
  /\ appender.appended = << >>
  /\ appender.syncRuns = 0
  /\ appender.errorCount = 1

\* C17: whenever processZipFile has finished, by a return at its end, by the
\* early return for a zip file with no chat text file or by a throw, the
\* temporary extraction directory does not exist.
C17_TempDirectoryRemoved ==
  appender.outcome # "none" => ~appender.tempExtract

\* processZipFile has returned early and the temporary directory is there
C17_TempLeftByEarlyReturn ==
  /\ appender.outcome = "returned early"
  /\ appender.tempExtract
  /\ appender.pc = "done"

(***************************************************************************)
(* Properties of parseNativeFile, checked under SpecParse                  *)
(***************************************************************************)
\* the lines of the transcript that was parsed, trimmed
ParsedLine(i) == TrimLine(transcripts[NumberedName].lines[i])

\* the line begins with a date of a supported style
IsDated(line) == line.style \in DateStyles

\* a dated line with no colon-delimited sender
IsSenderless(line) == IsDated(line) /\ ~HasSender(line.text)

\* a non-empty line that is neither a message line nor a system line
IsContinuation(line) == ~IsDated(line) /\ LineText(line) # << >>

\* the last message line before line i, or 0
LastMessageLineBefore(i) ==
  IF \E h \in 1..(i - 1) : messageMatch(ParsedLine(h))
  THEN CHOOSE h \in 1..(i - 1) :
         /\ messageMatch(ParsedLine(h))
         /\ \A g \in (h + 1)..(i - 1) : ~messageMatch(ParsedLine(g))
  ELSE 0

\* the text is the body of a message or one of the lines of a body
IsLineOfBody(text, body) ==
  \/ body = text
  \/ \E k \in 1..Len(body) :
       /\ MatchAt(body, text, k)
       /\ k = 1 \/ body[k - 1] = "\n"
       /\ k + Len(text) > Len(body) \/ body[k + Len(text)] = "\n"

\* C19: every non-empty line that is neither a message line nor a system line
\* and comes after a message line is kept: it is a line of the body of a chat
\* message of the sender and the time of the last message line before it.
C19_ContinuationKept ==
  pc = "parsed" =>
    \A i \in 1..Len(transcripts[NumberedName].lines) :
      (IsContinuation(ParsedLine(i)) /\ LastMessageLineBefore(i) # 0) =>
        LET previous == MessageOfLine(ParsedLine(LastMessageLineBefore(i)), tz)
        IN  \E k \in 1..Len(nativeMessages) :
              /\ nativeMessages[k].messageType = "chat"
              /\ nativeMessages[k].formattedName = previous.formattedName
              /\ nativeMessages[k].timestamp = previous.timestamp
              /\ IsLineOfBody(LineText(ParsedLine(i)), nativeMessages[k].messageBody)

\* the transcript is "1/1/25, 0:00 - Zed: hi" and then "a - b": the parser
\* gives the one message "hi"
C19_DashedLineDiscarded ==
  /\ pc = "parsed"
  /\ Len(transcripts[NumberedName].lines) = 2
  /\ messageMatch(ParsedLine(1))
  /\ ParsedLine(2) = Line("none", 0, BodyDashed)
  /\ Len(nativeMessages) = 1
  /\ nativeMessages[1].messageBody = BodyHi

\* C20: a line that begins with a date of a supported style and has no
\* colon-delimited sender is dropped: it gives no message and it is appended
\* to no message, so the body of no message holds the line.
C20_SenderlessLineDropped ==
  pc = "parsed" =>
    \A i \in 1..Len(transcripts[NumberedName].lines) :
      IsSenderless(ParsedLine(i)) =>
        \A k \in 1..Len(nativeMessages) :
          ~Includes(nativeMessages[k].messageBody, LineText(ParsedLine(i)))

\* the transcript is "1/1/25, 0:00 - Zed: hi" and then
\* "[01.01.2025, 00:02:00] locked": the second line is in the body of "hi"
C20_EuLineAppended ==
  /\ pc = "parsed"
  /\ Len(transcripts[NumberedName].lines) = 2
  /\ messageMatch(ParsedLine(1))
  /\ ParsedLine(2) = Line("EU", 120, Space \o Locked)
  /\ Len(nativeMessages) = 1
  /\ nativeMessages[1].messageBody
       = BodyHi \o NewLine \o LineText(ParsedLine(2))

(***************************************************************************)
(* Properties of mergeMessages, checked under SpecMerge                    *)
(***************************************************************************)
Merged == pc # "merge"
AllInputs == jsonMessages \o nativeMessages
\* the mapping mergeMessages built for the batch
BatchMapping == buildSenderMapping(jsonMessages, nativeMessages)

\* C1: merging the result M of a merge again, with the empty sequence or with
\* M itself, returns exactly the messages of M in the same order.
C1_MergeIdempotent == pc = "remerged" => remerged = mergedMessages

\* A = [Bob/Bobby "Aa" at 0:10, Bob/Zed "hi" at 0:00], B = [Zed "Aa" at 0:00]:
\* M keeps all three, and the second merge drops the last of them
C1_MessageLostOnSecondMerge ==
  /\ pc = "remerged"
  /\ Len(mergedMessages) = 3
  /\ Len(remerged) = 2
  /\ mergedMessages[3].formattedName = Bob
  /\ mergedMessages[3].messageBody = BodyAa

\* two messages that differ in the body only
SameButBody(a, b) ==
  /\ a.formattedName = b.formattedName
  /\ a.displayName = b.displayName
  /\ a.messageType = b.messageType
  /\ a.timestamp = b.timestamp
  /\ a.messageBody # b.messageBody

\* C3: two input messages with the same sender, type and timestamp and with
\* different bodies are both in the output of mergeMessages.
C3_DistinctBodiesKept ==
  Merged =>
    \A i, j \in 1..Len(AllInputs) :
      SameButBody(AllInputs[i], AllInputs[j]) =>
        /\ AllInputs[i] \in Range(mergedMessages)
        /\ AllInputs[j] \in Range(mergedMessages)

\* the bodies "Aa" and "BB" of one sender at one time: one message is left
C3_BodiesCollapsed ==
  /\ pc = "merged"
  /\ jsonMessages = << >>
  /\ Len(nativeMessages) = 2
  /\ SameButBody(nativeMessages[1], nativeMessages[2])
  /\ Len(mergedMessages) = 1

\* the same message in both files: equal canonical sender, type and trimmed
\* body, and timestamps in one window
SameMessage(a, b, mapping) ==
  /\ normalizeSenderName(a, mapping) = normalizeSenderName(b, mapping)
  /\ TypeText(a.messageType) = TypeText(b.messageType)
  /\ Trim(a.messageBody) = Trim(b.messageBody)
  /\ ~IsNaN(a.timestamp)
  /\ ~IsNaN(b.timestamp)
  /\ FloorTo(a.timestamp, WindowMs) = FloorTo(b.timestamp, WindowMs)

LessOrEqual(x, y) == ~IsNaN(x) /\ ~IsNaN(y) /\ Val(x) <= Val(y)

\* C5: the output of mergeMessages is in chronological order: for every
\* adjacent pair, timestamp[i] <= timestamp[i+1].
C5_Chronological ==
  Merged =>
    \A k \in 1..(Len(mergedMessages) - 1) :
      LessOrEqual(mergedMessages[k].timestamp, mergedMessages[k + 1].timestamp)

\* an item whose messageTime is no date is kept with the timestamp NaN
C5_InvalidTimeKept ==
  /\ pc = "merged"
  /\ Len(mergedMessages) = 2
  /\ \E k \in 1..2 : IsNaN(mergedMessages[k].timestamp)

\* C6: no two messages of the output share a content fingerprint, and no two
\* share a time-windowed fingerprint.
C6_NoSharedFingerprint ==
  Merged =>
    LET mapping == BatchMapping
        hashes == HashesOf(mergedMessages, mapping)
    IN  \A k, l \in 1..Len(mergedMessages) :
          k # l =>
            /\ hashes[mergedMessages[k]].contentHash
                 # hashes[mergedMessages[l]].contentHash
            /\ hashes[mergedMessages[k]].timeAwareHash
                 # hashes[mergedMessages[l]].timeAwareHash

\* a batch of which one message was dropped and two are kept
C6_SomeDroppedSomeKept ==
  /\ pc = "merged"
  /\ Len(mergedMessages) >= 2
  /\ Len(mergedMessages) < Len(AllInputs)

\* a message of "You" and a message of a configured label that are the same
SelfPair(a, b) ==
  /\ a.formattedName = You
  /\ b.formattedName \in myIdentifiers
  /\ TypeText(a.messageType) = TypeText(b.messageType)
  /\ Trim(a.messageBody) = Trim(b.messageBody)
  /\ ~IsNaN(a.timestamp)
  /\ ~IsNaN(b.timestamp)
  /\ FloorTo(a.timestamp, WindowMs) = FloorTo(b.timestamp, WindowMs)

\* C7: when the self-identity configuration lists the label L, a chats.json
\* message of "You" and a transcript message of L with the same type, the same
\* body and timestamps in one 5-minute window both get the token SELF, and the
\* output holds exactly one of them.
C7_ConfiguredLabelIsSelf ==
  Merged =>
    \A i \in 1..Len(jsonMessages), j \in 1..Len(nativeMessages) :
      SelfPair(jsonMessages[i], nativeMessages[j]) =>
        /\ normalizeSenderName(jsonMessages[i], BatchMapping) = SELF
        /\ normalizeSenderName(nativeMessages[j], BatchMapping) = SELF
        /\ Cardinality({ k \in 1..Len(mergedMessages) :
                           mergedMessages[k] \in {jsonMessages[i],
                                                  nativeMessages[j]} }) = 1

\* "You" of chats.json and the configured "Mike" of the transcript are both kept
C7_ConfiguredLabelKeptTwice ==
  /\ pc = "merged"
  /\ Mike \in myIdentifiers
  /\ Len(jsonMessages) = 1
  /\ Len(nativeMessages) = 1
  /\ SelfPair(jsonMessages[1], nativeMessages[1])
  /\ Len(mergedMessages) = 2

\* the token of a message in the batch that holds this message alone
TokenAlone(msg) == normalizeSenderName(msg, buildSenderMapping(<<msg>>, << >>))

\* C11: the canonical sender token of a message depends on the message only:
\* in every batch it is the token the message gets when it is merged alone.
C11_TokenOfMessageOnly ==
  Merged =>
    LET mapping == BatchMapping
    IN  \A i \in 1..Len(AllInputs) :
          normalizeSenderName(AllInputs[i], mapping) = TokenAlone(AllInputs[i])

\* the message of "Bob" with the display name "Zed" is "Zed" alone and "Bobby"
\* in a batch that a message of "Bob" with the display name "Bobby" begins
C11_TokenFromOtherMessage ==
  /\ pc = "merged"
  /\ \E i \in 1..Len(AllInputs) :
       /\ AllInputs[i].formattedName = Bob
       /\ AllInputs[i].displayName = Zed
       /\ TokenAlone(AllInputs[i]) = Zed
       /\ normalizeSenderName(AllInputs[i], BatchMapping) = Bobby

\* the two messages share a fingerprint
Duplicates(a, b, mapping) ==
  \/ createMessageHash(a, mapping) = createMessageHash(b, mapping)
  \/ createTimeAwareHash(a, mapping) = createTimeAwareHash(b, mapping)

\* C18: of a chats.json message and a transcript message that share a
\* fingerprint the output keeps the chats.json one, also when the transcript
\* one has the earlier timestamp.
C18_JsonCopyKept ==
  Merged =>
    LET mapping == BatchMapping
    IN  \A i \in 1..Len(jsonMessages), j \in 1..Len(nativeMessages) :
          Duplicates(jsonMessages[i], nativeMessages[j], mapping) =>
            /\ jsonMessages[i] \in Range(mergedMessages)
            /\ nativeMessages[j] \notin Range(mergedMessages)

\* "Zed: hi" is in chats.json at 0:01 and in the transcript at 0:00, on a
\* machine at UTC: the output is the message of the transcript
C18_EarlierTranscriptCopyKept ==
  /\ pc = "merged"
  /\ tz = 0
  /\ Len(jsonMessages) = 1
  /\ Len(nativeMessages) = 1
  /\ Duplicates(jsonMessages[1], nativeMessages[1], BatchMapping)
  /\ Val(nativeMessages[1].timestamp) < Val(jsonMessages[1].timestamp)
  /\ mergedMessages = nativeMessages

\* C13: every message the two parsers produce carries a valid numeric
\* timestamp, never a not-a-number one.
C13_TimestampsValid ==
  /\ \A i \in 1..Len(jsonMessages) : ~IsNaN(jsonMessages[i].timestamp)
  /\ \A j \in 1..Len(nativeMessages) : ~IsNaN(nativeMessages[j].timestamp)

\* parseJsonFile has read an item whose messageTime is no date: the timestamp
\* of its message is NaN, and the messages of the transcript have numbers
C13_InvalidTimeParsed ==
  /\ \E i \in 1..Len(jsonMessages) :
       /\ jsonMessages[i].formattedName = Bob
       /\ IsNaN(jsonMessages[i].messageTime)
       /\ IsNaN(jsonMessages[i].timestamp)
  /\ Len(nativeMessages) = 1
  /\ ~IsNaN(nativeMessages[1].timestamp)

\* the label has no part that says who the sender is: it is not "You", it is
\* no phone number and extractShortName finds no word of more than two
\* characters in it
NoShortForm(sender) ==
  /\ sender # You
  /\ ~phonePatterns(sender)
  /\ SelectSeq(SplitSpaces(RemoveFillerWords(RemoveEmailLike(sender, 1), 1)),
               IsMeaningfulWord) = << >>

\* no message of the batch gives the sender of msg a display name
Unresolved(msg) ==
  /\ NoShortForm(Trim(msg.formattedName))
  /\ DisplayNamesOf(AllInputs, Trim(msg.formattedName)) = << >>

\* C12: the canonical sender token of a message is never the empty string, and
\* the token of a sender that cannot be resolved (no display name, no usable
\* short form, missing or blank label) is the raw sender label.
C12_TokenNeverEmpty ==
  Merged =>
    LET mapping == BatchMapping
    IN  \A i \in 1..Len(AllInputs) :
          /\ normalizeSenderName(AllInputs[i], mapping) # << >>
          /\ Unresolved(AllInputs[i]) =>
               normalizeSenderName(AllInputs[i], mapping)
                 = AllInputs[i].formattedName

\* a chats.json item with no sender label and no display name, merged alone:
\* its token is the empty string
C12_EmptyTokenOfMissingLabel ==
  /\ pc = "merged"
  /\ Len(AllInputs) = 1
  /\ AllInputs[1].formattedName = << >>
  /\ AllInputs[1].displayName = << >>
  /\ normalizeSenderName(AllInputs[1], BatchMapping) = << >>

(***************************************************************************)
(* Properties of syncFormats, checked under Spec                           *)
(***************************************************************************)
Succeeded == pc = "done" /\ exitCode = "ok"

\* the attachment messages of the merged output
IsAttachmentMessage(msg) == msg.isAttachment /\ msg.messageBody # << >>
AttachmentMessages == SelectSeq(mergedMessages, IsAttachmentMessage)

\* C14: when an attachment message of the output names a file that is nowhere
\* under the chat directory, or a copy fails, syncMediaFiles prints a warning
\* and the run goes on: it does not end in failure, and when it ends both
\* chats.json and the transcript hold the merged messages.
C14_MediaProblemsDoNotAbort ==
  /\ pc = "media" =>
       \A k \in 1..Len(AttachmentMessages) :
         LET filename == AttachmentMessages[k].messageBody
             sourceDir == getDirectoryForMessageType(AttachmentMessages[k].messageType)
             media == syncMediaFiles(dirs, mediaFiles, unreadable, mergedMessages)
         IN  <<sourceDir, filename>> \notin media.files =>
               \E w \in media.warnings : w[2] = filename
  /\ warnings # {} =>
       /\ exitCode # "failed"
       /\ pc \in {"writeJson", "writeNative", "done"}
       /\ pc \in {"writeNative", "done"} => chatsJson = messagesToJson(mergedMessages)
       /\ Succeeded =>
            /\ written = {"json", "native"}
            /\ transcripts[nativePath] = FileOf(messagesToNative(mergedMessages))

\* a run that has ended with success after the warning that the copy of
\* "p.jpg" failed
C14_DoneAfterFailedCopy ==
  /\ Succeeded
  /\ <<"failed to copy", PhotoName>> \in warnings
  /\ <<"image", PhotoName>> \notin mediaFiles

\* the places syncMediaFiles is to look for a file: the four media
\* directories and the directory of the transcript backups
SearchPlaces == Range(MediaTypes) \cup {"native_backups"}

ExistsSomewhere(filename) ==
  \E place \in SearchPlaces : <<place, filename>> \in mediaFiles

InCanonicalDir(msg) ==
  <<getDirectoryForMessageType(msg.messageType), msg.messageBody>> \in mediaFiles

\* C15: after syncMediaFiles has returned, every attachment message whose file
\* is in one of the four media directories or in native_backups has a file of
\* that name in the directory of its type.
C15_AttachmentInCanonicalDir ==
  pc = "writeJson" =>
    \A k \in 1..Len(AttachmentMessages) :
      ExistsSomewhere(AttachmentMessages[k].messageBody) =>
        InCanonicalDir(AttachmentMessages[k])

\* the sticker "s.webp" is in image/ and can be read; syncMediaFiles has
\* returned and sticker/ does not hold it
C15_StickerNotCopied ==
  /\ pc = "writeJson"
  /\ unreadable = {}
  /\ Len(mergedMessages) = 1
  /\ mergedMessages[1].messageType = "sticker"
  /\ mergedMessages[1].messageBody = StickerName
  /\ <<"image", StickerName>> \in mediaFiles
  /\ <<"sticker", StickerName>> \notin mediaFiles
  /\ warnings = {<<"failed to copy", StickerName>>, <<"not found", StickerName>>}

\* a run that has ended with success after the warning that "p.jpg" is nowhere
C14_DoneAfterMissingFile ==
  /\ Succeeded
  /\ runs = 1
  /\ mediaFiles = {}
  /\ warnings = {<<"not found", PhotoName>>}

\* the content of a message: sender label, type and body
SameContent(a, b) ==
  /\ a.formattedName = b.formattedName
  /\ a.messageType = b.messageType
  /\ a.messageBody = b.messageBody
SameMessages(first, second) ==
  /\ Len(first.items) = Len(second.items)
  /\ \A k \in 1..Len(first.items) : SameContent(first.items[k], second.items[k])

C8_BackupBeforeOverwrite ==
  /\ ("json" \in written /\ atStart.chatsJson.kind # "absent") =>
       \E b \in jsonBackups : b.at = now /\ b.content = atStart.chatsJson
  /\ ("native" \in written /\ atStart.transcripts[nativePath].exists) =>
       \E b \in nativeBackups :
         /\ b.name = nativePath
         /\ b.at = now
         /\ b.content = atStart.transcripts[nativePath].lines

\* the second run on a directory whose transcript the first run created: it
\* overwrites "WhatsApp Chat.txt", and no backup of that file exists
C8_GenericTranscriptOverwritten ==
  /\ Succeeded
  /\ runs = 2
  /\ nativePath = GenericName
  /\ atStart.transcripts[GenericName].exists
  /\ atStart.transcripts[GenericName].lines # << >>
  /\ \A b \in nativeBackups : b.name # GenericName

\* chats.json holds no array of message objects
NotMessageArray(json) ==
  \/ json.kind \in {"garbage", "value"}
  \/ json.kind = "array" /\ \E i \in 1..Len(json.items) : json.items[i].kind # "object"
FatalInput ==
  \/ /\ atStart.chatsJson.kind = "absent"
     /\ SelectChatFile(atStart.dirs, atStart.transcripts) = NoPath
  \/ NotMessageArray(atStart.chatsJson)
Untouched ==
  atStart = Snapshot(chatsJson, transcripts, dirs, mediaFiles, jsonBackups,
                     nativeBackups)

\* C9: when neither source file exists, or chats.json holds no array of
\* message objects, the run ends in failure and nothing of the chat directory
\* has been created, modified or overwritten.
C9_FatalLeavesDirectoryUntouched ==
  FatalInput => /\ Untouched
                /\ pc = "done" => exitCode = "failed"

\* chats.json is [1]: the run ends with success, with a backup, the media
\* directories and both files written
C9_NumberArrayWritten ==
  /\ Succeeded
  /\ atStart.chatsJson = ArrayFile(<<NumberItem>>)
  /\ jsonBackups # {}
  /\ "video" \in dirs
  /\ chatsJson # atStart.chatsJson
  /\ transcripts[GenericName].exists

\* the line of the written transcript that begins message k of the output
FirstLineOf(k) == 3 + Len(LinesOfMessages(SubSeq(mergedMessages, 1, k - 1), 1))
WrittenStyle(k) == transcripts[nativePath].lines[FirstLineOf(k)].style
Represents(kept, msg) ==
  ContentString(kept, BatchMapping) = ContentString(msg, BatchMapping)

\* C10: after a run, a message read from a transcript line of one of the three
\* date styles that the merged output represents is written to the transcript
\* with a date of that style, also when chats.json holds the message too.
C10_DateStyleKept ==
  Succeeded =>
    \A i \in 1..Len(nativeMessages), k \in 1..Len(mergedMessages) :
      Represents(mergedMessages[k], nativeMessages[i]) =>
        WrittenStyle(k) = nativeMessages[i].originalDateFormat

\* the message of an EU-bracket line that chats.json holds too, with the same
\* time: the copy of chats.json is kept and the line is written in US style
C10_EuLineWrittenAsUs ==
  /\ Succeeded
  /\ runs = 1
  /\ Len(jsonMessages) = 1
  /\ Len(nativeMessages) = 1
  /\ nativeMessages[1].originalDateFormat = "EU"
  /\ jsonMessages[1].timestamp = nativeMessages[1].timestamp
  /\ mergedMessages = jsonMessages
  /\ WrittenStyle(1) = "US"

(***************************************************************************)
(* The two fingerprints of equal content, checked under SpecMerge          *)
(***************************************************************************)
\* equal canonical sender, type and trimmed body
EqualContent(a, b, mapping) ==
  /\ normalizeSenderName(a, mapping) = normalizeSenderName(b, mapping)
  /\ TypeText(a.messageType) = TypeText(b.messageType)
  /\ Trim(a.messageBody) = Trim(b.messageBody)

\* Math.floor(timestamp / 300000) is the same for both
SameWindow(a, b) == FloorTo(a.timestamp, WindowMs) = FloorTo(b.timestamp, WindowMs)

\* the two fingerprints of src/src/sync_formats.js: for two messages with
\* equal canonical sender, type and trimmed body, with the mapping of the
\* batch or with none, the content hashes are equal whatever the timestamps
\* are, and the time-aware hashes are equal exactly when
\* floor(timestamp / 5 minutes) is the same for both.
FingerprintsOfEqualContent ==
  Merged =>
    \A mapping \in {NoMapping, BatchMapping} :
      \A i, j \in 1..Len(AllInputs) :
        EqualContent(AllInputs[i], AllInputs[j], mapping) =>
          /\ createMessageHash(AllInputs[i], mapping)
               = createMessageHash(AllInputs[j], mapping)
          /\ (createTimeAwareHash(AllInputs[i], mapping)
                = createTimeAwareHash(AllInputs[j], mapping))
              <=> SameWindow(AllInputs[i], AllInputs[j])

\* "+7 900" at 0:01 and "+7900" at 0:02, read with no UTC offset: the two are
\* one minute apart in one window and one of them is dropped
OneMinuteApartInOneWindow ==
  /\ pc = "merged"
  /\ Len(jsonMessages) = 1
  /\ Len(nativeMessages) = 1
  /\ EqualContent(jsonMessages[1], nativeMessages[1], BatchMapping)
  /\ jsonMessages[1].timestamp = Num(60000)
  /\ nativeMessages[1].timestamp = Num(120000)
  /\ createTimeAwareHash(jsonMessages[1], BatchMapping)
       = createTimeAwareHash(nativeMessages[1], BatchMapping)
  /\ Len(mergedMessages) = 1

\* the same two read three hours east of UTC: they are in two windows, the
\* time-windowed fingerprints differ and the content fingerprints are equal
SameContentInTwoWindows ==
  /\ pc = "merged"
  /\ Len(jsonMessages) = 1
  /\ Len(nativeMessages) = 1
  /\ EqualContent(jsonMessages[1], nativeMessages[1], BatchMapping)
  /\ ~SameWindow(jsonMessages[1], nativeMessages[1])
  /\ createTimeAwareHash(jsonMessages[1], BatchMapping)
       # createTimeAwareHash(nativeMessages[1], BatchMapping)
  /\ createMessageHash(jsonMessages[1], BatchMapping)
       = createMessageHash(nativeMessages[1], BatchMapping)

(***************************************************************************)
(* The output of mergeMessages as a selection of the sorted inputs,        *)
(* checked under SpecOrder                                                 *)
(***************************************************************************)
\* a is b with some elements left out
IsSubsequence(a, b) ==
  \E f \in [1..Len(a) -> 1..Len(b)] :
    /\ \A k \in 1..Len(a) : b[f[k]] = a[k]
    /\ \A k, l \in 1..Len(a) : k < l => f[k] < f[l]

\* the place of a message in the concatenation of the inputs
InputIndex(msg) == CHOOSE i \in 1..Len(AllInputs) : AllInputs[i] = msg

\* s is in stable timestamp order: no message comes before one with a smaller
\* timestamp, and messages with equal timestamps are in input order; a
\* timestamp that is NaN is smaller than none, larger than none and equal to
\* none
InStableOrder(s) ==
  \A u, v \in 1..Len(s) :
    (u < v /\ ~IsNaN(s[u].timestamp) /\ ~IsNaN(s[v].timestamp)) =>
      /\ Val(s[u].timestamp) <= Val(s[v].timestamp)
      /\ Val(s[u].timestamp) = Val(s[v].timestamp) =>
           InputIndex(s[u]) <= InputIndex(s[v])

\* C22: every element of the output of mergeMessages is one of the input
\* messages, unmodified, and the output is a subsequence of a stable
\* timestamp-sort of the concatenation of the inputs (chats.json messages
\* first, then transcript messages).
C22_OutputIsSortedSelection ==
  pc = "merged" =>
    /\ \A k \in 1..Len(mergedMessages) : mergedMessages[k] \in Range(AllInputs)
    /\ \E sorted \in Orderings(AllInputs) :
         /\ InStableOrder(sorted)
         /\ IsSubsequence(mergedMessages, sorted)

\* chats.json holds "Aa" at 0:10 and "hi" with no date, the transcript "BB" at
\* 0:00; the sort leaves them as they are, and the output has 0:10 before 0:00
C22_LaterMessageFirst ==
  /\ pc = "merged"
  /\ Len(jsonMessages) = 2
  /\ Len(nativeMessages) = 1
  /\ ~IsNaN(jsonMessages[1].timestamp)
  /\ IsNaN(jsonMessages[2].timestamp)
  /\ Val(nativeMessages[1].timestamp) < Val(jsonMessages[1].timestamp)
  /\ mergedMessages = jsonMessages \o nativeMessages

(***************************************************************************)
(* The directory of a message type, checked under SpecMedia                *)
(***************************************************************************)
\* the attachment message types of the enumeration
AttachmentTypes == {"image", "video", "audio", "document", "pdf", "sticker"}

\* C23: when syncMediaFiles has returned, getDirectoryForMessageType gives,
\* for every attachment message type (image, video, audio, document, pdf,
\* sticker), one of the four media directories image, video, audio and
\* document, and that directory exists.
C23_DirectoryOfTypeEnsured ==
  pc = "writeJson" =>
    \A messageType \in AttachmentTypes :
      /\ getDirectoryForMessageType(messageType) \in Range(MediaTypes)
      /\ getDirectoryForMessageType(messageType) \in dirs

\* the output holds a sticker; syncMediaFiles has made the four directories
\* and has returned, and the directory sticker/ of the message is not there
C23_NoDirectoryForSticker ==
  /\ pc = "writeJson"
  /\ \E k \in 1..Len(AttachmentMessages) :
       /\ AttachmentMessages[k].messageType = "sticker"
       /\ getDirectoryForMessageType(AttachmentMessages[k].messageType) \notin dirs
  /\ Range(MediaTypes) \subseteq dirs

(***************************************************************************)
(* The configuration cache, checked under SpecConfig                       *)
(***************************************************************************)
\* C24: between two resets the configuration is read at most once and every
\* loadConfig call returns what the first one returned, whatever path it is
\* given; when the file of the first call cannot be read or parsed, the
\* configuration is exactly the single identifier "You".
C24_ConfigReadOncePerReset ==
  /\ config.reads <= 1
  /\ \A k \in 1..Len(config.returned) :
       config.returned[k].value = config.returned[1].value
  /\ (/\ config.returned # << >>
      /\ config.files[config.returned[1].path].kind \in {"missing", "garbage"})
       => config.returned[1].value = DefaultConfig

\* the main file holds false and the custom file a list of identifiers: the
\* first call returns false, the second reads the other file and returns the
\* list
C24_FalseConfigReadAgain ==
  /\ config.files["main"].kind = "false"
  /\ Len(config.returned) = 2
  /\ config.returned[1] = [path |-> "main", value |-> ConfigValue("false", << >>)]
  /\ config.returned[2].path = "custom"
  /\ config.returned[2].value.kind = "object"
  /\ config.reads = 2

(***************************************************************************)
(* The transcript written and read again, checked under Spec               *)
(***************************************************************************)
\* the messages parseNativeFile reads from the transcript the run has written
ReadBack == parseNativeFile(transcripts[nativePath].lines, tz)

\* C25: the transcript that messagesToNative has written of the merged
\* messages, parsed again with parseNativeFile, gives for every merged message
\* a message with the same type, the same body and the same canonical sender.
C25_TranscriptRoundTrip ==
  Succeeded =>
    /\ Len(ReadBack) = Len(mergedMessages)
    /\ \A k \in 1..Len(mergedMessages) :
         /\ ReadBack[k].messageType = mergedMessages[k].messageType
         /\ ReadBack[k].messageBody = mergedMessages[k].messageBody
         /\ normalizeSenderName(ReadBack[k], NoMapping)
              = normalizeSenderName(mergedMessages[k], NoMapping)

\* the sticker "s.webp" is written as "s.webp (file attached)" and read back as
\* an image, by its extension
C25_StickerReadAsImage ==
  /\ Succeeded
  /\ runs = 1
  /\ Len(mergedMessages) = 1
  /\ mergedMessages[1].messageType = "sticker"
  /\ mergedMessages[1].messageBody = StickerName
  /\ Len(ReadBack) = 1
  /\ ReadBack[1].messageType = "image"
  /\ ReadBack[1].messageBody = StickerName

\* C26: the transcript file that a run has written is the file the next run
\* on the directory selects as its transcript source, also when the run found
\* no transcript and created one.
C26_WrittenTranscriptSelectedNext ==
  Succeeded => SelectChatFile(dirs, transcripts) = nativePath

\* the first run found no transcript and created "WhatsApp Chat.txt" with the
\* merged messages; the second run has looked for its sources: it has found no
\* transcript and has read no message from one
C26_CreatedTranscriptNotRead ==
  /\ runs = 2
  /\ pc = "backupJson"
  /\ Len(history) = 1
  /\ atStart.transcripts[GenericName].exists
  /\ atStart.transcripts[GenericName].lines # << >>
  /\ ~hasNative
  /\ nativePath = NoPath
  /\ nativeMessages = << >>

\* the message lines of the transcript the run has read
ReadMessageLines ==
  IF hasNative
  THEN SelectSeq(atStart.transcripts[nativePath].lines,
                 LAMBDA line : messageMatch(TrimLine(line)))
  ELSE << >>

\* C27: for the date of every message line the run has read, normalizeDate
\* followed by convertToNativeDate in the style of the line gives the date text
\* of the line back: the same calendar date and wall-clock time, at every UTC
\* offset of the machine.
C27_DateRoundTrip ==
  \A i \in 1..Len(ReadMessageLines) :
    LET line == ReadMessageLines[i]
    IN  convertToNativeDate(normalizeDate(line.date, tz), line.style)
          = convertToNativeDate(Num(line.date), line.style)

\* three hours east of UTC the transcript held "[01.01.2025, 00:00:00] Zed: hi"
\* alone; the run has written the message as "[31.12.2024, 21:00:00] Zed: hi"
C27_WrittenThreeHoursEarlier ==
  /\ Succeeded
  /\ runs = 1
  /\ tz = 10800
  /\ atStart.chatsJson = AbsentJson
  /\ nativePath = NumberedName
  /\ atStart.transcripts[NumberedName].lines
       = <<Line("EU", 0, Space \o Zed \o ColonSpace \o BodyHi)>>
  /\ transcripts[NumberedName].lines[3]
       = Line("EU", 0 - 10800, Space \o Zed \o ColonSpace \o BodyHi)

(***************************************************************************)
(* The two checks of the loop of mergeMessages, checked under SpecMerge    *)
(***************************************************************************)
\* the input messages the merge has dropped
Dropped == { msg \in Range(AllInputs) : msg \notin Range(mergedMessages) }

\* C28: in mergeMessages, a message whose time-windowed fingerprint is that of
\* a kept message has the content fingerprint of that message too, and every
\* dropped message has the content fingerprint of a kept message: none is
\* dropped by the time-window check alone.
C28_TimeWindowCheckNeverAlone ==
  pc = "merged" =>
    LET hashes == HashesOf(AllInputs, BatchMapping)
    IN  /\ \A msg \in Range(AllInputs), kept \in Range(mergedMessages) :
             hashes[msg].timeAwareHash = hashes[kept].timeAwareHash
               => hashes[msg].contentHash = hashes[kept].contentHash
        /\ \A msg \in Dropped :
             \E kept \in Range(mergedMessages) :
               hashes[msg].contentHash = hashes[kept].contentHash

\* of three messages one is dropped: a kept message has its time-windowed
\* fingerprint, and its content fingerprint as well
C28_DroppedWithBothSeen ==
  /\ pc = "merged"
  /\ Len(AllInputs) = 3
  /\ Len(mergedMessages) = 2
  /\ \E msg \in Dropped, kept \in Range(mergedMessages) :
       /\ createTimeAwareHash(msg, BatchMapping)
            = createTimeAwareHash(kept, BatchMapping)
       /\ createMessageHash(msg, BatchMapping)
            = createMessageHash(kept, BatchMapping)

(***************************************************************************)
(* C29: every input message that mergeMessages drops shares its content    *)
(* fingerprint or its time-windowed fingerprint with a message that was    *)
(* kept and that stands before it in the order of the timestamps; the      *)
(* output has at most |A| + |B| messages and is empty only when both       *)
(* inputs are empty.                                                       *)
(***************************************************************************)
Occurrences(s, x) == Cardinality({ i \in 1..Len(s) : s[i] = x })

\* the messages of the inputs that the output holds fewer times
DroppedOfInputs ==
  { msg \in Range(AllInputs) :
      Occurrences(mergedMessages, msg) < Occurrences(AllInputs, msg) }

\* kept stands before msg in the inputs sorted by timestamp
StandsBefore(kept, msg) ==
  \E allMessages \in SortOutcomes(AllInputs) :
    \E j, i \in 1..Len(allMessages) :
      j < i /\ allMessages[j] = kept /\ allMessages[i] = msg

SharesFingerprint(a, b) ==
  LET hashes == DeterministicHashesOf(AllInputs, myIdentifiers, tz)
  IN  \/ hashes[a].contentHash = hashes[b].contentHash
      \/ hashes[a].timeAwareHash = hashes[b].timeAwareHash

C29_DroppedSharesWithEarlierKept ==
  pc = "merged" =>
    /\ \A msg \in DroppedOfInputs :
         \E kept \in Range(mergedMessages) :
           SharesFingerprint(msg, kept) /\ StandsBefore(kept, msg)
    /\ Len(mergedMessages) <= Len(jsonMessages) + Len(nativeMessages)
    /\ (mergedMessages = << >> => AllInputs = << >>)

\* the later of two copies of a message is the one that was kept
C29_KeptCopyIsTheLater ==
  /\ pc = "merged"
  /\ \E msg \in DroppedOfInputs :
       /\ \E kept \in Range(mergedMessages) : SharesFingerprint(msg, kept)
       /\ \A kept \in Range(mergedMessages) :
            SharesFingerprint(msg, kept) =>
              /\ ~StandsBefore(kept, msg)
              /\ Val(kept.timestamp) > Val(msg.timestamp)

(***************************************************************************)
(* C21: for two messages with equal canonical sender, type and trimmed     *)
(* body the content fingerprints are equal whatever the two timestamps     *)
(* are, and the time-windowed fingerprints are equal exactly when          *)
(* floor(timestamp / 5 minutes) is the same for both.  Stated of the       *)
(* hashes of src/unnamed/part_012.                                         *)
(***************************************************************************)
EqualDeterministicContent(a, b) ==
  /\ normalizedSender(a, myIdentifiers) = normalizedSender(b, myIdentifiers)
  /\ TypeText(a.messageType) = TypeText(b.messageType)
  /\ Trim(a.messageBody) = Trim(b.messageBody)

C21_DeterministicFingerprints ==
  Merged =>
    \A i, j \in 1..Len(AllInputs) :
      EqualDeterministicContent(AllInputs[i], AllInputs[j]) =>
        /\ createMessageHashOfMinute(AllInputs[i], myIdentifiers, tz)
             = createMessageHashOfMinute(AllInputs[j], myIdentifiers, tz)
        /\ (createTimeAwareHashOfWindow(AllInputs[i], myIdentifiers)
              = createTimeAwareHashOfWindow(AllInputs[j], myIdentifiers))
            <=> SameWindow(AllInputs[i], AllInputs[j])

\* Bob's "hi" of 0:00:50 and Bob's "hi" of 0:11:00: equal content, two content
\* hashes, and both messages are kept
C21_SameContentInTwoMinutes ==
  /\ pc = "merged"
  /\ nativeMessages = << >>
  /\ Len(jsonMessages) = 2
  /\ EqualDeterministicContent(jsonMessages[1], jsonMessages[2])
  /\ jsonMessages[1].messageTime = Num(50)
  /\ jsonMessages[2].messageTime = Num(660)
  /\ createMessageHashOfMinute(jsonMessages[1], myIdentifiers, tz)
       # createMessageHashOfMinute(jsonMessages[2], myIdentifiers, tz)
  /\ mergedMessages = jsonMessages

(***************************************************************************)
(* C30: syncMediaFiles only creates directories and copies files: it never *)
(* deletes, moves or overwrites a file that already exists, and a second   *)
(* call with the same messages on the resulting directory copies nothing.  *)
(* After the call of a run: every directory and media file of the start is *)
(* still there, the new directories are media directories, the new files   *)
(* are the targets of the reported copies, no copy had a target that was   *)
(* there, and the call made again reports no copy and changes nothing.     *)
(***************************************************************************)
MediaOfRun ==
  syncMediaFiles(atStart.dirs, atStart.mediaFiles, unreadable, mergedMessages)

MediaOfSecondCall == syncMediaFiles(dirs, mediaFiles, unreadable, mergedMessages)

=============================================================================
